---- MODULE Spec2Model ----
(***************************************************************************)
(* Orchestration core of llm-pet: TaskManager (framework/event.py),        *)
(* ThreadedWorker (framework/worker.py) and PluginManager                  *)
(* (framework/plugin.py).  Every handler that runs on the worker's event   *)
(* loop without awaiting is one atomic action.                              *)
(***************************************************************************)
EXTENDS Integers, Sequences, FiniteSets, TLC

(* ---------------------------- bounds ---------------------------------- *)
\* Task objects ever handed to add_task and started.
MaxTasks == 2

\* Calls of ThreadedWorker.submit_task.
MaxSubmits == 2

\* Events waiting for PluginManager.on_event, beyond which update_config is
\* not called.
MaxPending == 2

\* Dicts handed to merge_str_dict in one call.
MaxDicts == 2

(* ------------------------- TaskManager state --------------------------- *)
VARIABLES
    tasks,            \* TaskManager.tasks: the dict, as the sequence of its entries in key order
    atask,            \* the asyncio.Task wrapping each Task object: its state
    taskName,         \* Task.name of each Task object ("" while the object does not exist)
    event_callbacks,  \* TaskManager.event_callbacks: the keys in dict order
    cb_of,            \* TaskManager.event_callbacks[key]: the callable under each key ("" for none)
    cb_lock,          \* TaskManager.cb_lock: "free", or "deadlocked" once the loop thread re-acquires it
    last              \* history: what the last handler did, with the deliveries it made

tmVars == <<tasks, atask, taskName, event_callbacks, cb_of, cb_lock, last>>

(* ------------------------ ThreadedWorker state ------------------------- *)
VARIABLES
    thread,      \* the worker thread: "none", "alive" (in run_forever) or "ended"
    ready,       \* the loop's queue of ready callbacks, oldest first
    batch,       \* callbacks left in the current iteration of the loop
    stopping,    \* loop.stop() has run: the loop exits after the current iteration
    stopCalled,  \* ThreadedWorker.stop() has been called
    future,      \* the handle each submit_task returned: its state
    wlast        \* history: the last step of the worker, and whether the call raised

wVars == <<thread, ready, batch, stopping, stopCalled, future, wlast>>

(* ------------------------ PluginManager state -------------------------- *)
VARIABLES
    plugin_classes,  \* PluginManager.plugin_classes: the ordered list, <<>> before init
    config,          \* the persisted `enabled` flag of each plugin class
    instance,        \* plugin_class.instance: 0 for None
    pmQueue,         \* events triggered for PluginManager.on_event and not yet handled
    dep_held,        \* per loaded plugin and dependency: the provider its on_dep_load was handed
    inited,          \* history: per class, the instances whose init has run and whose clear has not
    pmLast           \* history: what the last PluginManager entry point did

pmVars == <<plugin_classes, config, instance, pmQueue, dep_held, inited, pmLast>>

(* ---------------------------- MoveTask state --------------------------- *)
VARIABLES
    move             \* the fields and locals of each MoveTask object, NoMove for any other task

(* ------------------------- merge_str_dict state ------------------------ *)
VARIABLES
    fragments,       \* the arguments of a merge_str_dict call: the dicts and the separator
    merged           \* what the call returned, <<"none">> before it

fnVars == <<fragments, merged>>

(* --------------------------- config.yaml state ------------------------- *)
VARIABLES
    config_file,     \* config.yaml in the directory of each plugin class: what it holds
    cached_config,   \* cls._config of each plugin class: "none" for None
    cfgLast          \* history: what the last get_config call did

cfgVars == <<config_file, cached_config, cfgLast>>

(* --------------------------- drag plugin state ------------------------- *)
VARIABLES
    dragging,        \* Plugin.dragging of the drag plugin
    calls            \* the calls the drag plugin handed to submit_task, oldest first

dragVars == <<dragging, calls>>

(* ------------------------------ Agent state ---------------------------- *)
VARIABLES
    agent_class,     \* which Agent runs: "core" (plugins/core) or "framework" (framework/agent.py)
    agent_task,      \* Agent.task: the run task the agent refers to, 0 for None
    run_task,        \* the asyncio task of each run() coroutine ever created: its state
    create_queued,   \* create_task callbacks of Agent.start waiting in the loop's queue
    agLast           \* history: the last step of the agent

agVars == <<agent_class, agent_task, run_task, create_queued, agLast>>

(* ------------------------ StreamMarkerParser state --------------------- *)
VARIABLES
    parser_src,      \* which StreamMarkerParser runs: "framework" or "core" (plugins/core)
    pieces,          \* the model's reply, as the pieces it is made of
    fed,             \* characters of the reply handed to process so far
    parser,          \* the StreamMarkerParser object
    returned,        \* what the process calls returned, concatenated
    marker_events,   \* the MarkerEvents triggered, oldest first
    prLast           \* history: the last process call

prVars == <<parser_src, pieces, fed, parser, returned, marker_events, prLast>>

auxVars == <<cfgVars, dragVars, agVars, prVars>>

vars == <<tmVars, wVars, pmVars, move, fnVars, auxVars>>

(* ------------------------- TaskManager.tasks --------------------------- *)
TaskIds == 1..MaxTasks

\* Task classes; Task.name is the class name by default.
TaskNames == {"MoveTask", "DragTask", "OnceTask"}

\* Callback keys used with register_callback.
CallbackKeys == {"bridge", "agent"}

\* Callables handed to register_callback.
Callbacks == {"emit", "on_event", "f"}

\* The callable main() registers under each key: the bridge's signal emit
\* under "bridge", agent.on_event under "agent".
MainCallback(key) == IF key = "bridge" THEN "emit" ELSE "on_event"

\* What new_task.merge(old_task) does, per task class: MoveTask returns
\* (self, None); DragTask inherits Task.merge, which raises; OnceTask
\* returns (None, None), the rejection the signature of Task.merge allows.
merge(name) ==
    CASE name = "MoveTask" -> "self"
      [] name = "DragTask" -> "raise"
      [] OTHER -> "none"

\* The index of the entry of `name` in the dict, 0 when there is none.
KeyIndex(ts, name) ==
    IF \E i \in 1..Len(ts) : ts[i].name = name
    THEN CHOOSE i \in 1..Len(ts) : ts[i].name = name
    ELSE 0

\* cls.tasks.get(new_task.name, (None, None)): the Task object, 0 for None.
tasks_get(ts, name) ==
    IF KeyIndex(ts, name) = 0 THEN 0 ELSE ts[KeyIndex(ts, name)].tid

\* cls.tasks[name] = (task, create_task(...)): a dict assignment keeps the
\* position of an existing key and appends a new one.
tasks_set(ts, name, tid) ==
    IF KeyIndex(ts, name) = 0
    THEN Append(ts, [name |-> name, tid |-> tid])
    ELSE [ts EXCEPT ![KeyIndex(ts, name)] = [name |-> name, tid |-> tid]]

\* cls.tasks.pop(name): removes the entry of that name, whichever task holds it.
tasks_pop(ts, name) ==
    SelectSeq(ts, LAMBDA en : en.name # name)

\* A cancel() whose request is lost.
cancel_lost(at, tid) == at

\* running_old_task.cancel(): requests cancellation of a task that is not
\* done; on a finished task it does nothing.
cancel(at, tid) ==
    IF at[tid] = "pending" THEN [at EXCEPT ![tid] = "cancelling"] ELSE at


(* --------------------------- event delivery ---------------------------- *)
\* A delivery that visits the callbacks before the tasks.
recipients_callbacks_first(ts, cbs) ==
    [i \in 1..(Len(ts) + Len(cbs)) |->
        IF i <= Len(cbs)
        THEN [kind |-> "cb", id |-> cbs[i], tid |-> 0]
        ELSE [kind |-> "task", id |-> ts[i - Len(cbs)].name, tid |-> ts[i - Len(cbs)].tid]]

\* The recipients of one delivery in the order trigger_event visits them:
\* `for task, _ in cls.tasks.values()` and then, under cb_lock,
\* `for cb in cls.event_callbacks.values()`.
recipients(ts, cbs) ==
    [i \in 1..(Len(ts) + Len(cbs)) |->
        IF i <= Len(ts)
        THEN [kind |-> "task", id |-> ts[i].name, tid |-> ts[i].tid]
        ELSE [kind |-> "cb", id |-> cbs[i - Len(ts)], tid |-> 0]]

\* What the hook of each recipient does with the event it is handed:
\* "ok" returns, "raise" raises, "nested" calls TaskManager.trigger_event
\* itself before it returns.  At most the hook at position pos misbehaves.
Hooks(n, pos, kind) == [i \in 1..n |-> IF i = pos THEN kind ELSE "ok"]

\* task.on_event(event) / cb(event) is entered: the recipient has the event.
\* The log gets: event number id reached recipient r.
rcv(d, r, id) ==
    [d EXCEPT !.order = Append(@, [ev |-> id, kind |-> r.kind, id |-> r.id, tid |-> r.tid])]

\* trigger_event is entered once more within the handler: its event gets
\* the next number, so events are numbered in the order of the calls.
announce(d) == [d EXCEPT !.n = @ + 1]

\* The two loops of trigger_event from recipient i on.  A hook that raises
\* ends the delivery (nothing catches the exception); a task hook that
\* triggers an event runs that whole delivery before the outer one goes on; a
\* callback that triggers an event runs the inner task loop and then blocks
\* on cb_lock, a non-reentrant threading.Lock its own thread already holds.
RECURSIVE deliver(_, _, _, _, _, _)
deliver(d, ts, cbs, id, hooks, i) ==
    LET R == recipients(ts, cbs) IN
    IF i > Len(R) THEN d
    ELSE LET d1 == rcv(d, R[i], id)
             inner == announce(d1)
             okAll == Hooks(Len(R), 0, "ok")
         IN  CASE hooks[i] = "raise" -> [d1 EXCEPT !.raised = TRUE]
               [] hooks[i] = "nested" /\ R[i].kind = "task" ->
                    deliver(deliver(inner, ts, cbs, inner.n, okAll, 1),
                            ts, cbs, id, hooks, i + 1)
               [] hooks[i] = "nested" /\ R[i].kind = "cb" ->
                    [deliver(inner, ts, <<>>, inner.n, okAll, 1)
                        EXCEPT !.lock = "deadlocked"]
               [] OTHER -> deliver(d1, ts, cbs, id, hooks, i + 1)

\* TaskManager.trigger_event(event): the log of the deliveries it makes.
trigger_event(ts, cbs, hooks) ==
    deliver([n |-> 1, order |-> <<>>, raised |-> FALSE, lock |-> "free"],
            ts, cbs, 1, hooks, 1)


(* ------------------------- TaskManager.add_task ------------------------ *)
\* An add_task that takes a merge that raises for "start the new task".
add_task_state_overwrite(ts, at, name, tid) ==
    LET old == tasks_get(ts, name) IN
    IF old = 0
    THEN [outcome |-> "first", old |-> 0,
          tasks |-> tasks_set(ts, name, tid),
          atask |-> [at EXCEPT ![tid] = "pending"]]
    ELSE CASE merge(name) = "none" ->
                [outcome |-> "rejected", old |-> old, tasks |-> ts, atask |-> at]
           [] OTHER ->
                [outcome |-> "replaced", old |-> old,
                 tasks |-> tasks_set(ts, name, tid),
                 atask |-> [cancel(at, old) EXCEPT ![tid] = "pending"]]

\* An add_task that cancels the running task before it asks merge.
add_task_state_cancel_first(ts, at, name, tid) ==
    LET old == tasks_get(ts, name) IN
    IF old = 0
    THEN [outcome |-> "first", old |-> 0,
          tasks |-> tasks_set(ts, name, tid),
          atask |-> [at EXCEPT ![tid] = "pending"]]
    ELSE CASE merge(name) = "raise" ->
                [outcome |-> "raised", old |-> old, tasks |-> ts, atask |-> cancel(at, old)]
           [] merge(name) = "none" ->
                [outcome |-> "rejected", old |-> old, tasks |-> ts, atask |-> cancel(at, old)]
           [] OTHER ->
                [outcome |-> "replaced", old |-> old,
                 tasks |-> tasks_set(ts, name, tid),
                 atask |-> [cancel(at, old) EXCEPT ![tid] = "pending"]]

\* Lines 102-115 of add_task for a new Task object tid of class `name`: the
\* lookup, the merge, the cancellation of the old asyncio task and the
\* registration of the selected task.
add_task_state(ts, at, name, tid) ==
    LET old == tasks_get(ts, name) IN
    IF old = 0
    THEN [outcome |-> "first", old |-> 0,
          tasks |-> tasks_set(ts, name, tid),
          atask |-> [at EXCEPT ![tid] = "pending"]]
    ELSE CASE merge(name) = "raise" ->
                [outcome |-> "raised", old |-> old, tasks |-> ts, atask |-> at]
           [] merge(name) = "none" ->
                [outcome |-> "rejected", old |-> old, tasks |-> ts, atask |-> at]
           [] OTHER ->
                [outcome |-> "replaced", old |-> old,
                 tasks |-> tasks_set(ts, name, tid),
                 atask |-> [cancel(at, old) EXCEPT ![tid] = "pending"]]

\* A broadcast made before the registration.
tasks_before_registration(before, after) == before

\* The dict trigger_event iterates at line 116: NewTaskEvent is broadcast
\* after the registration at lines 112-115.
tasks_at_broadcast(before, after) == after

\* The first Task object not yet created, 0 when the bound is used up.
FreshTask ==
    IF \E t \in TaskIds : taskName[t] = ""
    THEN CHOOSE t \in TaskIds : taskName[t] = "" /\ \A u \in 1..(t - 1) : taskName[u] # ""
    ELSE 0

Outcome(d, ok) ==
    IF d.lock = "deadlocked" THEN "blocked" ELSE IF d.raised THEN "hook_raised" ELSE ok

\* await TaskManager.add_task(new_task) on the loop for a new Task object
\* obj of class `name`; no await inside, so the whole body is one step of
\* the loop.
add_task(name, pos, kind, obj) ==
    LET tid == FreshTask
        r == add_task_state(tasks, atask, name, tid)
        ts == tasks_at_broadcast(tasks, r.tasks)
        n == Len(ts) + Len(event_callbacks)
        d == trigger_event(ts, event_callbacks, Hooks(n, pos, kind))
    IN  /\ cb_lock = "free"
        /\ (tasks_get(tasks, name) = 0 \/ merge(name) = "self") => tid # 0
        /\ tasks' = r.tasks
        /\ atask' = r.atask
        /\ IF r.outcome \in {"raised", "rejected"}
           THEN /\ pos = 0 /\ kind = "raise"
                /\ last' = [op |-> "add_task", outcome |-> r.outcome, name |-> name,
                            old |-> r.old, new |-> 0, broadcasts |-> 0, nev |-> 0,
                            order |-> <<>>, cb |-> ""]
                /\ UNCHANGED <<taskName, event_callbacks, cb_of, cb_lock, move>>
           ELSE /\ pos \in 0..n
                /\ pos = 0 => kind = "raise"
                /\ taskName' = [taskName EXCEPT ![tid] = name]
                /\ move' = [move EXCEPT ![tid] = obj]
                /\ cb_lock' = d.lock
                /\ last' = [op |-> "add_task", outcome |-> Outcome(d, r.outcome),
                            name |-> name, old |-> r.old, new |-> tid,
                            broadcasts |-> 1, nev |-> d.n, order |-> d.order, cb |-> ""]
                /\ UNCHANGED <<event_callbacks, cb_of>>
        /\ UNCHANGED <<wVars, pmVars, fnVars, auxVars>>

\* TaskManager.trigger_event(event), called on the loop.
TriggerEvent(pos, kind) ==
    LET n == Len(tasks) + Len(event_callbacks)
        d == trigger_event(tasks, event_callbacks, Hooks(n, pos, kind))
    IN  /\ cb_lock = "free"
        /\ pos \in 0..n
        /\ pos = 0 => kind = "raise"
        /\ cb_lock' = d.lock
        /\ last' = [op |-> "trigger_event", outcome |-> Outcome(d, "ok"), name |-> "",
                    old |-> 0, new |-> 0, broadcasts |-> 0, nev |-> d.n, order |-> d.order,
                    cb |-> ""]
        /\ UNCHANGED <<tasks, atask, taskName, event_callbacks, cb_of, wVars, pmVars, move, fnVars, auxVars>>

Done(op, outcome, name, tid) ==
    [op |-> op, outcome |-> outcome, name |-> name, old |-> tid, new |-> 0,
     broadcasts |-> 0, nev |-> 0, order |-> <<>>, cb |-> ""]

\* A register_callback that stores cb under a key that is registered.
register_callback_overwrite(cbs, fns, key, cb) ==
    [outcome |-> "ok",
     event_callbacks |-> IF \E i \in 1..Len(cbs) : cbs[i] = key THEN cbs ELSE Append(cbs, key),
     cb_of |-> [fns EXCEPT ![key] = cb]]

\* The body of register_callback under the lock: the assert fails on a key
\* that is registered, and then nothing is stored.
register_callback_state(cbs, fns, key, cb) ==
    IF \E i \in 1..Len(cbs) : cbs[i] = key
    THEN [outcome |-> "raised", event_callbacks |-> cbs, cb_of |-> fns]
    ELSE [outcome |-> "ok", event_callbacks |-> Append(cbs, key),
          cb_of |-> [fns EXCEPT ![key] = cb]]

\* TaskManager.register_callback(key, cb).
register_callback(key, cb) ==
    LET r == register_callback_state(event_callbacks, cb_of, key, cb) IN
    /\ cb_lock = "free"
    /\ event_callbacks' = r.event_callbacks
    /\ cb_of' = r.cb_of
    /\ last' = [Done("register_callback", r.outcome, key, 0) EXCEPT !.cb = cb]
    /\ UNCHANGED <<tasks, atask, taskName, cb_lock, wVars, pmVars, move, fnVars, auxVars>>

\* TaskManager.remove_callback(key): pop(key, None).
remove_callback(key) ==
    /\ cb_lock = "free"
    /\ event_callbacks' = SelectSeq(event_callbacks, LAMBDA k : k # key)
    /\ cb_of' = [cb_of EXCEPT ![key] = ""]
    /\ last' = Done("remove_callback", "ok", key, 0)
    /\ UNCHANGED <<tasks, atask, taskName, cb_lock, wVars, pmVars, move, fnVars, auxVars>>

(* ------------------------ TaskManager.task_wrapper --------------------- *)
\* The entries left after `await task.execute()` returned normally: the else
\* branch pops the entry of task.name.
task_wrapper_returned(ts, name) == tasks_pop(ts, name)

\* The entries left after execute raised an exception other than
\* CancelledError: neither the except nor the else branch runs.
task_wrapper_raised(ts, name) == ts

\* A wrapper that pops the entry of task.name on cancellation too.
task_wrapper_cancelled_pops(ts, name) == tasks_pop(ts, name)

\* The entries left after CancelledError came out of execute:
\* `except asyncio.CancelledError: pass`.
task_wrapper_cancelled(ts, name) == ts

\* execute returns: `else: cls.tasks.pop(task.name)`; a missing key makes
\* the wrapper itself raise KeyError.
TaskReturn(tid) ==
    /\ cb_lock = "free"
    /\ atask[tid] = "pending"
    /\ IF KeyIndex(tasks, taskName[tid]) = 0
       THEN /\ atask' = [atask EXCEPT ![tid] = "faulted"]
            /\ UNCHANGED tasks
       ELSE /\ atask' = [atask EXCEPT ![tid] = "returned"]
            /\ tasks' = task_wrapper_returned(tasks, taskName[tid])
    /\ last' = Done("task_return", "ok", taskName[tid], tid)
    /\ UNCHANGED <<taskName, event_callbacks, cb_of, cb_lock, wVars, pmVars, move, fnVars, auxVars>>

\* execute raises an unexpected exception: it leaves task_wrapper and ends
\* the asyncio task.
TaskFault(tid) ==
    /\ cb_lock = "free"
    /\ atask[tid] = "pending"
    /\ atask' = [atask EXCEPT ![tid] = "faulted"]
    /\ tasks' = task_wrapper_raised(tasks, taskName[tid])
    /\ last' = Done("task_fault", "ok", taskName[tid], tid)
    /\ UNCHANGED <<taskName, event_callbacks, cb_of, cb_lock, wVars, pmVars, move, fnVars, auxVars>>

\* The loop throws CancelledError into a task whose cancellation was
\* requested: `except asyncio.CancelledError: pass`.
TaskCancelled(tid) ==
    /\ cb_lock = "free"
    /\ atask[tid] = "cancelling"
    /\ atask' = [atask EXCEPT ![tid] = "cancelled"]
    /\ tasks' = task_wrapper_cancelled(tasks, taskName[tid])
    /\ last' = Done("task_cancelled", "ok", taskName[tid], tid)
    /\ UNCHANGED <<taskName, event_callbacks, cb_of, cb_lock, wVars, pmVars, move, fnVars, auxVars>>

(* ------------------------------- MoveTask ------------------------------ *)
\* The state of a Task object that is not a MoveTask.
NoMove ==
    [init_pos |-> <<>>, target |-> <<>>, mode |-> "", running |-> FALSE,
     i |-> 0, new_pos |-> <<>>, fired |-> <<>>]

\* MoveTask(init_pos, target, mode) after __init__.  i is the loop variable
\* of execute (0 before the first iteration), new_pos its local (<<>> while
\* unbound); fired is the new_pos of the MoveEvent(new_pos, True) the task
\* has triggered (<<>> for none).
MoveTask(init_pos, target, mode) ==
    [init_pos |-> init_pos, target |-> target, mode |-> mode, running |-> TRUE,
     i |-> 0, new_pos |-> <<>>, fired |-> <<>>]

\* Pet positions and move targets, in screen pixels; a target can be the
\* position the pet is at.
Positions == {<<0, 0>>, <<7, 7>>}
Targets == {<<7, 7>>, <<10, 10>>, <<50, 50>>}
Modes == {"walk", "run"}

\* self.speed[self.mode] * self.interval: the pixels of one step.
StepLen(mode) == IF mode = "walk" THEN 4 ELSE 10

Abs(x) == IF x < 0 THEN -x ELSE x

\* step_count = round(math.hypot(dx, dy) / speed / interval): the integer n
\* nearest to sqrt(dx^2 + dy^2) / StepLen, the even one of the two on a tie.
step_count(init_pos, target, mode) ==
    LET dx == target[1] - init_pos[1]
        dy == target[2] - init_pos[2]
        d4 == 4 * (dx * dx + dy * dy)
        k == StepLen(mode)
        lo(n) == (2 * n - 1) * (2 * n - 1) * k * k
        hi(n) == (2 * n + 1) * (2 * n + 1) * k * k
    IN  CHOOSE n \in 0..(Abs(dx) + Abs(dy)) :
            \/ (n = 0 \/ lo(n) < d4) /\ d4 < hi(n)
            \/ n % 2 = 0 /\ d4 = hi(n)
            \/ n % 2 = 0 /\ n > 0 /\ d4 = lo(n)

\* int(a / n) for a float quotient: truncation towards zero.
IntDiv(a, n) == IF a >= 0 THEN a \div n ELSE -((-a) \div n)

\* (int(init_pos[0] + dx * i / step_count), int(init_pos[1] + dy * i / step_count)).
step_pos(init_pos, target, n, i) ==
    <<IntDiv(init_pos[1] * n + (target[1] - init_pos[1]) * i, n),
      IntDiv(init_pos[2] * n + (target[2] - init_pos[2]) * i, n)>>

\* The new_pos of MoveEvent(new_pos, True) at line 69: the local of the
\* last loop iteration.
finished_pos(m) == m.new_pos

\* The asyncio task of MoveTask tid runs from where it stands to its next
\* await or to its end (task_wrapper around MoveTask.execute): an iteration
\* of the loop up to the sleep, the return of a task that was told to stop,
\* or the lines after the loop.  With step_count <= 1 the loop body never
\* runs and line 69 reads the unbound local new_pos: UnboundLocalError.
MoveStep(tid) ==
    LET m == move[tid]
        n == step_count(m.init_pos, m.target, m.mode)
        j == m.i + 1
        d == trigger_event(tasks, event_callbacks,
                           Hooks(Len(tasks) + Len(event_callbacks), 0, "ok"))
        popped == IF KeyIndex(tasks, "MoveTask") = 0 THEN "faulted" ELSE "returned"
    IN  /\ cb_lock = "free"
        /\ atask[tid] = "pending"
        /\ taskName[tid] = "MoveTask"
        /\ m.mode # ""
        /\ CASE j < n /\ ~m.running ->
                  /\ atask' = [atask EXCEPT ![tid] = popped]
                  /\ tasks' = task_wrapper_returned(tasks, "MoveTask")
                  /\ last' = Done("move_step", "stopped", "MoveTask", tid)
                  /\ UNCHANGED move
             [] j < n /\ m.running ->
                  /\ move' = [move EXCEPT ![tid].i = j,
                                          ![tid].new_pos = step_pos(m.init_pos, m.target, n, j)]
                  /\ last' = [Done("move_step", "moved", "MoveTask", tid)
                                 EXCEPT !.nev = d.n, !.order = d.order]
                  /\ UNCHANGED <<tasks, atask>>
             [] j >= n /\ m.new_pos = <<>> ->
                  /\ atask' = [atask EXCEPT ![tid] = "faulted"]
                  /\ tasks' = task_wrapper_raised(tasks, "MoveTask")
                  /\ last' = Done("move_step", "unbound", "MoveTask", tid)
                  /\ UNCHANGED move
             [] OTHER ->
                  /\ move' = [move EXCEPT ![tid].fired = finished_pos(m)]
                  /\ atask' = [atask EXCEPT ![tid] = popped]
                  /\ tasks' = task_wrapper_returned(tasks, "MoveTask")
                  /\ last' = [Done("move_step", "finished", "MoveTask", tid)
                                 EXCEPT !.nev = d.n, !.order = d.order]
        /\ UNCHANGED <<taskName, event_callbacks, cb_of, cb_lock, wVars, pmVars, fnVars, auxVars>>

\* A DragEvent (tags "move" and "user") is triggered: MoveTask.on_event of
\* every registered MoveTask clears its running flag.
UserMove ==
    /\ cb_lock = "free"
    /\ \E i \in 1..Len(tasks) : tasks[i].name = "MoveTask" /\ move[tasks[i].tid].running
    /\ move' = [t \in TaskIds |->
                   IF tasks_get(tasks, "MoveTask") = t
                   THEN [move[t] EXCEPT !.running = FALSE]
                   ELSE move[t]]
    /\ last' = Done("user_move", "ok", "", 0)
    /\ UNCHANGED <<tasks, atask, taskName, event_callbacks, cb_of, cb_lock, wVars, pmVars,
                   fnVars, auxVars>>

(* ---------------------------- ThreadedWorker --------------------------- *)
Handles == 1..MaxSubmits

\* What the callable handed to submit_task does when the loop calls it:
\* return a value, raise, or return a coroutine that returns or raises.
Callables == {"sync_ok", "sync_raise", "coro_ok", "coro_raise"}

WDone(op, outcome) == [op |-> op, outcome |-> outcome]

NoFuture == [fn |-> "", state |-> "none", sets |-> 0, afterStop |-> FALSE]

\* The ThreadedWorker class right after import: no thread, no loop.
ThreadedWorkerInit ==
    /\ thread = "none"
    /\ ready = <<>>
    /\ batch = 0
    /\ stopping = FALSE
    /\ stopCalled = FALSE
    /\ future = [h \in Handles |-> NoFuture]
    /\ wlast = WDone("init", "ok")

Item(kind, h) == [kind |-> kind, h |-> h]

\* A start that sets up a new loop and thread whatever cls.thread is.
start_state_again(th, rd, bt, st) ==
    [outcome |-> "ok", thread |-> "alive", ready |-> <<>>, batch |-> 0, stopping |-> FALSE]

\* The body of start: `if cls.thread: raise` (a bare raise: RuntimeError),
\* else a new loop (nothing queued, not stopped) and a started thread.  The
\* Thread object stays in cls.thread after the thread has ended.
start_state(th, rd, bt, st) ==
    IF th # "none"
    THEN [outcome |-> "raised", thread |-> th, ready |-> rd, batch |-> bt, stopping |-> st]
    ELSE [outcome |-> "ok", thread |-> "alive", ready |-> <<>>, batch |-> 0,
          stopping |-> FALSE]

\* ThreadedWorker.start(): raises when cls.thread is set, else creates the
\* loop and starts the daemon thread that runs loop.run_forever().
start ==
    LET r == start_state(thread, ready, batch, stopping) IN
    /\ thread' = r.thread
    /\ ready' = r.ready
    /\ batch' = r.batch
    /\ stopping' = r.stopping
    /\ wlast' = WDone("start", r.outcome)
    /\ UNCHANGED <<stopCalled, future, tmVars, pmVars, move, fnVars, auxVars>>

\* ThreadedWorker.stop(): cls.loop.call_soon_threadsafe(cls.loop.stop).
\* Before start() the class has no attribute `loop` and the call raises.
\* main() calls it once, after app.exec() returned.
stop ==
    /\ ~stopCalled
    /\ IF thread = "none"
       THEN wlast' = WDone("stop", "raised") /\ UNCHANGED <<ready, stopCalled>>
       ELSE /\ wlast' = WDone("stop", "ok")
            /\ ready' = Append(ready, Item("stop", 0))
            /\ stopCalled' = TRUE
    /\ UNCHANGED <<thread, batch, stopping, future, tmVars, pmVars, move, fnVars, auxVars>>

\* ThreadedWorker.submit_task(task): creates the future, queues execute on
\* the loop and returns the future.  call_soon_threadsafe only refuses a
\* closed loop, and stop() never closes it.
submit_task(h, fn) ==
    /\ future[h].state = "none"
    /\ \A g \in 1..(h - 1) : future[g].state # "none"
    /\ IF thread = "none"
       THEN wlast' = WDone("submit_task", "raised") /\ UNCHANGED <<ready, future>>
       ELSE /\ wlast' = WDone("submit_task", "ok")
            /\ future' = [future EXCEPT ![h] =
                    [fn |-> fn, state |-> "pending", sets |-> 0, afterStop |-> stopCalled]]
            /\ ready' = Append(ready, Item("execute", h))
    /\ UNCHANGED <<thread, batch, stopping, stopCalled, tmVars, pmVars, move, fnVars, auxVars>>

\* future.set_result / future.set_exception.
set_future(f, h, state) == [f EXCEPT ![h].state = state, ![h].sets = @ + 1]

\* The done callback `lambda f: future.set_result(f.result())`: f.result()
\* re-raises the coroutine's exception inside the callback, where
\* concurrent.futures logs and drops it, so set_result is never reached.
done_callback(f, h) ==
    IF f[h].fn = "coro_ok" THEN set_future(f, h, "result") ELSE f

\* One queued callback runs on the loop thread.
\*   execute:          lines 32-41
\*   ensure_future:    the callback run_coroutine_threadsafe queues (line 36)
\*   step:             the coroutine's asyncio task runs to its end
\*   chain:            the task's result reaches async_task (line 37)
\*   handle_exception: lines 29-30
\*   stop:             loop.stop
run_callback(it) ==
    LET rest == Tail(ready) IN
    CASE it.kind = "execute" /\ future[it.h].fn = "sync_ok" ->
            /\ future' = set_future(future, it.h, "result")
            /\ ready' = rest
            /\ UNCHANGED stopping
      [] it.kind = "execute" /\ future[it.h].fn = "sync_raise" ->
            /\ ready' = Append(rest, Item("handle_exception", it.h))
            /\ UNCHANGED <<future, stopping>>
      [] it.kind = "execute" /\ future[it.h].fn \in {"coro_ok", "coro_raise"} ->
            /\ ready' = Append(rest, Item("ensure_future", it.h))
            /\ UNCHANGED <<future, stopping>>
      [] it.kind = "ensure_future" ->
            /\ ready' = Append(rest, Item("step", it.h))
            /\ UNCHANGED <<future, stopping>>
      [] it.kind = "step" ->
            /\ ready' = Append(rest, Item("chain", it.h))
            /\ UNCHANGED <<future, stopping>>
      [] it.kind = "chain" ->
            /\ future' = done_callback(future, it.h)
            /\ ready' = rest
            /\ UNCHANGED stopping
      [] it.kind = "handle_exception" ->
            /\ future' = set_future(future, it.h, "exception")
            /\ ready' = rest
            /\ UNCHANGED stopping
      [] it.kind = "stop" ->
            /\ stopping' = TRUE
            /\ ready' = rest
            /\ UNCHANGED future

\* run_forever: one iteration runs the callbacks that were queued when it
\* began, then the loop leaves if stop() has run.
LoopRun ==
    /\ thread = "alive"
    /\ ready # <<>>
    /\ batch > 0 \/ ~stopping
    /\ batch' = (IF batch = 0 THEN Len(ready) ELSE batch) - 1
    /\ run_callback(Head(ready))
    /\ wlast' = WDone("run", "ok")
    /\ UNCHANGED <<thread, stopCalled, tmVars, pmVars, move, fnVars, auxVars>>

\* run_forever returns and run() with it: the thread ends.
LoopExit ==
    /\ thread = "alive"
    /\ batch = 0
    /\ stopping
    /\ thread' = "ended"
    /\ wlast' = WDone("exit", "ok")
    /\ UNCHANGED <<ready, batch, stopping, stopCalled, future, tmVars, pmVars, move, fnVars, auxVars>>

(* ------------------------------ drag plugin ---------------------------- *)
\* Calls the drag plugin hands to submit_task; a drag is only begun or
\* continued while the call of its mouse_release still fits.
MaxCalls == 6

\* The events of the drag plugin; all carry the tags "move" and "user".
DragEvents == {"DragStartEvent", "DragEvent", "DragEndEvent"}

\* DragTask() after __init__: running is True.
DragTask == [NoMove EXCEPT !.running = TRUE]

\* A call handed to submit_task: TaskManager.trigger_event(ev) or
\* TaskManager.add_task(task), and how far the loop has taken it: "queued",
\* "called" (add_task has returned its coroutine) or "done" (the body of the
\* function has run).
Call(fn, ev, task) == [fn |-> fn, ev |-> ev, task |-> task, state |-> "queued"]

\* ThreadedWorker.submit_task(task, *args) as BasePlugin.trigger_event and
\* BasePlugin.add_task use it: execute is queued on the loop, the future
\* returned is dropped.
submit(q, cs, c) ==
    [ready |-> Append(q, Item("execute", Len(cs) + 1)), calls |-> Append(cs, c)]

\* The first DragTask object not yet constructed, 0 when the bound is used up.
FreshDrag == FreshTask

\* Plugin.mouse_move with trigger_event configured, on the GUI thread: the
\* first move of a drag submits trigger_event(DragStartEvent()) and then
\* add_task(DragTask()); a later one submits trigger_event(DragEvent()).
mouse_move ==
    LET tid == FreshDrag
        s1 == submit(ready, calls, Call("trigger_event", "DragStartEvent", 0))
        s2 == submit(s1.ready, s1.calls, Call("add_task", "", tid))
        s3 == submit(ready, calls, Call("trigger_event", "DragEvent", 0))
    IN  /\ IF ~dragging
           THEN /\ tid # 0
                /\ Len(calls) + 3 <= MaxCalls
                /\ dragging' = TRUE
                /\ ready' = s2.ready
                /\ calls' = s2.calls
                /\ taskName' = [taskName EXCEPT ![tid] = "DragTask"]
                /\ move' = [move EXCEPT ![tid] = DragTask]
           ELSE /\ Len(calls) + 2 <= MaxCalls
                /\ ready' = s3.ready
                /\ calls' = s3.calls
                /\ UNCHANGED <<dragging, taskName, move>>
        /\ last' = Done("mouse_move", "ok", "", 0)
        /\ UNCHANGED <<tasks, atask, event_callbacks, cb_of, cb_lock, thread, batch, stopping,
                       stopCalled, future, wlast, pmVars, fnVars, cfgVars, agVars, prVars>>

\* Plugin.mouse_release with trigger_event configured, on the GUI thread.
mouse_release ==
    LET s1 == submit(ready, calls, Call("trigger_event", "DragEndEvent", 0)) IN
    /\ dragging
    /\ dragging' = FALSE
    /\ ready' = s1.ready
    /\ calls' = s1.calls
    /\ last' = Done("mouse_release", "ok", "", 0)
    /\ UNCHANGED <<tasks, atask, taskName, move, event_callbacks, cb_of, cb_lock, thread,
                   batch, stopping, stopCalled, future, wlast, pmVars, fnVars, cfgVars, agVars, prVars>>

\* task.on_event(ev) of every registered task: a DragTask stops on
\* DragEndEvent, a MoveTask on any event tagged "move" and "user".
on_event_tasks(mv, ts, names, ev) ==
    [t \in TaskIds |->
        IF /\ \E i \in 1..Len(ts) : ts[i].tid = t
           /\ \/ names[t] = "DragTask" /\ ev = "DragEndEvent"
              \/ names[t] = "MoveTask" /\ ev \in DragEvents
        THEN [mv[t] EXCEPT !.running = FALSE]
        ELSE mv[t]]

\* The loop runs the oldest callback of its queue:
\*   execute of trigger_event: the event is delivered (worker.py:32-39);
\*   execute of add_task: the call returns a coroutine, which
\*       run_coroutine_threadsafe hands to the loop in a new callback;
\*   ensure_future: that callback wraps the coroutine in an asyncio task,
\*       whose first step is queued;
\*   step: the body of add_task runs (event.py:102-116).
RunSubmitted ==
    LET it == Head(ready)
        c == calls[it.h]
        rest == Tail(ready)
        d == trigger_event(tasks, event_callbacks,
                           Hooks(Len(tasks) + Len(event_callbacks), 0, "ok"))
        r == add_task_state(tasks, atask, "DragTask", c.task)
        d2 == trigger_event(r.tasks, event_callbacks,
                            Hooks(Len(r.tasks) + Len(event_callbacks), 0, "ok"))
    IN  /\ thread = "alive"
        /\ ready # <<>>
        /\ CASE it.kind = "execute" /\ c.fn = "trigger_event" ->
                  /\ move' = on_event_tasks(move, tasks, taskName, c.ev)
                  /\ calls' = [calls EXCEPT ![it.h].state = "done"]
                  /\ ready' = rest
                  /\ last' = [Done("trigger_event", "ok", c.ev, it.h)
                                 EXCEPT !.nev = d.n, !.order = d.order]
                  /\ UNCHANGED <<tasks, atask>>
             [] it.kind = "execute" /\ c.fn = "add_task" ->
                  /\ calls' = [calls EXCEPT ![it.h].state = "called"]
                  /\ ready' = Append(rest, Item("ensure_future", it.h))
                  /\ last' = Done("execute", "ok", "DragTask", it.h)
                  /\ UNCHANGED <<tasks, atask, move>>
             [] it.kind = "ensure_future" ->
                  /\ ready' = Append(rest, Item("step", it.h))
                  /\ last' = Done("ensure_future", "ok", "DragTask", it.h)
                  /\ UNCHANGED <<tasks, atask, move, calls>>
             [] it.kind = "step" ->
                  /\ tasks' = r.tasks
                  /\ atask' = r.atask
                  /\ calls' = [calls EXCEPT ![it.h].state = "done"]
                  /\ ready' = rest
                  /\ last' = [op |-> "add_task", outcome |-> r.outcome, name |-> "DragTask",
                              old |-> r.old, new |-> IF r.outcome = "raised" THEN 0 ELSE c.task,
                              broadcasts |-> IF r.outcome = "raised" THEN 0 ELSE 1,
                              nev |-> IF r.outcome = "raised" THEN 0 ELSE d2.n,
                              order |-> IF r.outcome = "raised" THEN <<>> ELSE d2.order,
                              cb |-> ""]
                  /\ UNCHANGED move
        /\ UNCHANGED <<taskName, dragging, event_callbacks, cb_of, cb_lock, thread, batch,
                       stopping, stopCalled, future, wlast, pmVars, fnVars, cfgVars, agVars, prVars>>

\* DragTask.execute wakes from asyncio.sleep(check_interval) and finds
\* running False: it returns, and task_wrapper pops the entry of its name.
DragTaskReturn(tid) ==
    /\ taskName[tid] = "DragTask"
    /\ ~move[tid].running
    /\ TaskReturn(tid)

(* --------------------------------- Agent ------------------------------- *)
\* run() tasks created for one Agent.
MaxRuns == 4

RunIds == 1..MaxRuns

\* The first run task not yet created, 0 when the bound is used up.
FreshRun(rt) ==
    IF \E r \in RunIds : rt[r] = "none"
    THEN CHOOSE r \in RunIds : rt[r] = "none" /\ \A q \in 1..(r - 1) : rt[q] # "none"
    ELSE 0

\* task.cancel() on the task self.task refers to, if any.
cancel_run(rt, t) ==
    IF t # 0 /\ rt[t] = "alive" THEN [rt EXCEPT ![t] = "cancelling"] ELSE rt

\* Agent.stop(): cancel self.task and forget it.
agent_stop(rt, t) == [run_task |-> cancel_run(rt, t), agent_task |-> 0]

\* Plugin.on_event(PluginRefreshEvent) of the core plugin calls
\* self.agent.start(prompt, tools): stop() when self.task is set, then the
\* closure create_task is handed to the loop with call_soon_threadsafe;
\* self.task is assigned only when the loop runs it.
AgentStart ==
    LET r == agent_stop(run_task, agent_task) IN
    /\ agent_class = "core"
    /\ Cardinality({x \in RunIds : run_task[x] # "none"}) + create_queued < MaxRuns
    /\ run_task' = r.run_task
    /\ agent_task' = r.agent_task
    /\ create_queued' = create_queued + 1
    /\ agLast' = "start"
    /\ UNCHANGED <<agent_class, tmVars, wVars, pmVars, move, fnVars, cfgVars, dragVars, prVars>>

\* The loop runs a queued create_task closure:
\* self.task = ThreadedWorker.loop.create_task(self.run()).
AgentCreateTask ==
    /\ create_queued > 0
    /\ create_queued' = create_queued - 1
    /\ agent_task' = FreshRun(run_task)
    /\ run_task' = [run_task EXCEPT ![FreshRun(run_task)] = "alive"]
    /\ agLast' = "create_task"
    /\ UNCHANGED <<agent_class, tmVars, wVars, pmVars, move, fnVars, cfgVars, dragVars, prVars>>

\* Plugin.clear() of the core plugin: self.agent.stop().
AgentStop ==
    LET r == agent_stop(run_task, agent_task) IN
    /\ agent_class = "core"
    /\ agent_task # 0
    /\ run_task' = r.run_task
    /\ agent_task' = r.agent_task
    /\ agLast' = "stop"
    /\ UNCHANGED <<agent_class, create_queued, tmVars, wVars, pmVars, move, fnVars, cfgVars,
                   dragVars, prVars>>

\* Agent.init(system_prompt, tools) of framework/agent.py, called for a
\* PluginRefreshEvent: the task of the old instance is cancelled, and the
\* new instance's task is created and assigned within the call.
AgentInit ==
    LET rt == cancel_run(run_task, agent_task) IN
    /\ agent_class = "framework"
    /\ FreshRun(run_task) # 0
    /\ agent_task' = FreshRun(run_task)
    /\ run_task' = [rt EXCEPT ![FreshRun(run_task)] = "alive"]
    /\ agLast' = "init"
    /\ UNCHANGED <<agent_class, create_queued, tmVars, wVars, pmVars, move, fnVars, cfgVars,
                   dragVars, prVars>>

\* The loop throws CancelledError into a run task whose cancellation was
\* requested, and the task ends.
RunCancelled(r) ==
    /\ run_task[r] = "cancelling"
    /\ run_task' = [run_task EXCEPT ![r] = "cancelled"]
    /\ agLast' = "cancelled"
    /\ UNCHANGED <<agent_class, agent_task, create_queued, tmVars, wVars, pmVars, move, fnVars,
                   cfgVars, dragVars, prVars>>

(* --------------------------- StreamMarkerParser ------------------------ *)
\* Pieces of one reply.
MaxPieces == 3

\* StreamMarkerParser("[:", ":]").
start_marker == <<"[", ":">>
end_marker == <<":", "]">>

\* What a reply is made of: single characters of text, the marker
\* "[:n:d:]", and the marker "[:n:d::]" whose data "d:" ends with a colon.
Pieces == {"[", "]", "a", " ", "marker", "marker_colon"}

PieceText(x) ==
    CASE x = "marker" -> <<"[", ":", "n", ":", "d", ":", "]">>
      [] x = "marker_colon" -> <<"[", ":", "n", ":", "d", ":", ":", "]">>
      [] OTHER -> <<x>>

\* The characters of the reply.
RECURSIVE Stream(_)
Stream(ps) == IF ps = <<>> THEN <<>> ELSE PieceText(Head(ps)) \o Stream(Tail(ps))

MarkerEvent(name, data) == [marker |-> name, data |-> data]

\* StreamMarkerParser.__init__.
StreamMarkerParser ==
    [state |-> "normal", buffer |-> <<>>, marker_buffer |-> <<>>,
     start_match_index |-> 0, end_match_index |-> 0]

\* A process call under way: the parser, the events triggered so far, and
\* whether an exception has ended the call.
Processing(psr) == [p |-> psr, events |-> <<>>, outcome |-> "ok"]

\* The position of the first ":" of s, 0 when there is none.
find_colon(s) ==
    IF \E i \in 1..Len(s) : s[i] = ":"
    THEN CHOOSE i \in 1..Len(s) : s[i] = ":" /\ \A j \in 1..(i - 1) : s[j] # ":"
    ELSE 0

normal_process(r, c) ==
    IF c = start_marker[1]
    THEN [r EXCEPT !.p.state = "in_start", !.p.start_match_index = 1]
    ELSE [r EXCEPT !.p.buffer = Append(@, c)]

in_start_process(r, c) ==
    IF c = start_marker[r.p.start_match_index + 1]
    THEN IF r.p.start_match_index + 1 = Len(start_marker)
         THEN [r EXCEPT !.p.start_match_index = @ + 1, !.p.state = "in_marker"]
         ELSE [r EXCEPT !.p.start_match_index = @ + 1]
    ELSE [r EXCEPT !.p.buffer = Append(@ \o SubSeq(start_marker, 1, r.p.start_match_index), c),
                   !.p.state = "normal"]

in_marker_process(r, c) ==
    IF c = end_marker[1]
    THEN [r EXCEPT !.p.end_match_index = 1, !.p.state = "in_end"]
    ELSE [r EXCEPT !.p.marker_buffer = Append(@, c)]

\* name, data = self.marker_buffer.split(":", 1) raises ValueError when the
\* buffer holds no ":"; the state is normal by then and the buffer is kept.
in_end_process(r, c) ==
    LET mb == r.p.marker_buffer
        k == find_colon(mb)
    IN  IF c = end_marker[r.p.end_match_index + 1]
        THEN IF r.p.end_match_index + 1 = Len(end_marker)
             THEN IF k = 0
                  THEN [r EXCEPT !.p.end_match_index = @ + 1, !.p.state = "normal",
                                 !.outcome = "raised"]
                  ELSE [r EXCEPT !.p.end_match_index = @ + 1, !.p.state = "normal",
                                 !.p.marker_buffer = <<>>,
                                 !.events = Append(@, MarkerEvent(SubSeq(mb, 1, k - 1),
                                                                  SubSeq(mb, k + 1, Len(mb))))]
             ELSE [r EXCEPT !.p.end_match_index = @ + 1]
        ELSE [r EXCEPT !.p.marker_buffer =
                           Append(@ \o SubSeq(end_marker, 1, r.p.end_match_index), c),
                       !.p.state = "in_marker"]

\* The loop of process over the characters of one chunk.
RECURSIVE process_chars(_, _)
process_chars(r, s) ==
    IF s = <<>> \/ r.outcome = "raised" THEN r
    ELSE process_chars(
             CASE r.p.state = "normal" -> normal_process(r, Head(s))
               [] r.p.state = "in_start" -> in_start_process(r, Head(s))
               [] r.p.state = "in_marker" -> in_marker_process(r, Head(s))
               [] r.p.state = "in_end" -> in_end_process(r, Head(s)),
             Tail(s))

\* str.strip() for the blanks of the model.
RECURSIVE lstrip(_)
lstrip(s) == IF s # <<>> /\ Head(s) = " " THEN lstrip(Tail(s)) ELSE s

RECURSIVE rstrip(_)
rstrip(s) == IF s # <<>> /\ s[Len(s)] = " " THEN rstrip(SubSeq(s, 1, Len(s) - 1)) ELSE s

strip(s) == rstrip(lstrip(s))

\* parser.process(chunk) for the next k characters of the reply: the
\* characters are fed one by one, then the buffer is returned (stripped by
\* the core plugin's parser) and emptied.
process(k) ==
    LET r == process_chars(Processing(parser), SubSeq(Stream(pieces), fed + 1, fed + k))
        ret == IF parser_src = "core" THEN strip(r.p.buffer) ELSE r.p.buffer
    IN  /\ prLast.outcome # "raised"
        /\ fed + k <= Len(Stream(pieces))
        /\ fed' = fed + k
        /\ marker_events' = marker_events \o r.events
        /\ IF r.outcome = "raised"
           THEN /\ parser' = r.p
                /\ UNCHANGED returned
           ELSE /\ parser' = [r.p EXCEPT !.buffer = <<>>]
                /\ returned' = returned \o ret
        /\ prLast' = [op |-> "process", outcome |-> r.outcome, chunk |-> k]
        /\ UNCHANGED <<parser_src, pieces, tmVars, wVars, pmVars, move, fnVars, cfgVars,
                       dragVars, agVars>>

(* ---------------------------- PluginManager ---------------------------- *)
\* Plugin classes a plugins/ directory can hold: pet_state, live2d_pet,
\* expression, live2d_pet/expression_adapter and move as shipped, a pair
\* ring_a, ring_b of capability providers each depending on the capability
\* the other provides, mood_fx, a plugin without dependencies that reports
\* the pet's mood as pet_state does, and vrm_pet, a second pet plugin that
\* provides PetPluginProtocol.
PluginIds ==
    {"pet_state", "live2d_pet", "expression", "expression_adapter", "move",
     "ring_a", "ring_b", "mood_fx", "vrm_pet"}

\* cls.deps of each class.
deps(c) ==
    CASE c = "expression" -> <<"pet_state">>
      [] c = "expression_adapter" -> <<"live2d_pet", "expression">>
      [] c = "move" -> <<"PetPluginProtocol">>
      [] c = "ring_a" -> <<"RingB">>
      [] c = "ring_b" -> <<"RingA">>
      [] OTHER -> <<>>

\* The capability markers (PluginTypeBase subclasses) among the bases of
\* each class.
bases(c) ==
    CASE c = "live2d_pet" -> {"PetPluginProtocol"}
      [] c = "vrm_pet" -> {"PetPluginProtocol"}
      [] c = "ring_a" -> {"RingA"}
      [] c = "ring_b" -> {"RingB"}
      [] OTHER -> {}

\* plugin.infos() of an instance of each class, as the set of its
\* <<group title, key>> pairs.
plugin_infos(c) ==
    CASE c = "pet_state" -> {<<"Current State", "mood">>}
      [] c = "mood_fx" -> {<<"Current State", "mood">>}
      [] c = "expression" -> {<<"Current State", "Expression">>}
      [] c = "move" -> {<<"Screen", "Screen Size">>, <<"Screen", "Your Position">>}
      [] OTHER -> {}

\* issubclass(c, target), and isinstance of an instance of c.
issubclass(c, target) == c = target \/ target \in bases(c)

\* bool() of a class object.
Truthy(c) == TRUE

\* all(filter(lambda c: not issubclass(c, dep), ordered_plugin_classes)):
\* filter keeps the classes that do not match dep, and all() then tests the
\* truth value of each class kept.
all_filter(dep, ordered) ==
    \A i \in 1..Len(ordered) : ~issubclass(ordered[i], dep) => Truthy(ordered[i])

\* One pass of `for plugin_class in missing_deps` (lines 200-211).
RECURSIVE scan(_, _, _)
scan(missing, i, acc) ==
    IF i > Len(missing) THEN acc
    ELSE LET pc == missing[i]
             unmet == \E k \in 1..Len(deps(pc)) : all_filter(deps(pc)[k], acc.ordered)
         IN  scan(missing, i + 1,
                  IF unmet
                  THEN [acc EXCEPT !.new_missing = Append(@, pc)]
                  ELSE [acc EXCEPT !.ordered = Append(@, pc)])

\* `while missing_deps` (lines 198-215).
RECURSIVE order_loop(_, _)
order_loop(missing, ordered) ==
    IF missing = <<>> THEN ordered
    ELSE LET r == scan(missing, 1, [ordered |-> ordered, new_missing |-> <<>>])
         IN  IF Len(r.new_missing) = Len(missing)
             THEN r.ordered \o r.new_missing
             ELSE order_loop(r.new_missing, r.ordered)

\* PluginManager.load_all_plugin_classes for the classes in the order the
\* directory scan found them.
load_all_plugin_classes(found) ==
    order_loop(SelectSeq(found, LAMBDA c : deps(c) # <<>>),
               SelectSeq(found, LAMBDA c : deps(c) = <<>>))

\* PluginManager.get_loaded_plugins(type).
get_loaded_plugins(inst, pcs, type) ==
    SelectSeq(pcs, LAMBDA c : inst[c] # 0 /\ issubclass(c, type))

\* PluginManager.check_deps(target).
check_deps(inst, pcs, target) ==
    \A k \in 1..Len(deps(target)) : Len(get_loaded_plugins(inst, pcs, deps(target)[k])) # 0

\* cls.plugin_classes.index(plugin_class).
index(pcs, c) == CHOOSE i \in 1..Len(pcs) : pcs[i] = c

\* PluginReloadEvent(plugin_class), PluginConfigUpdateEvent(plugin_class)
\* and PluginRefreshEvent(system_prompt, tools), the last with the set of
\* loaded plugins its prompt and tools were computed from.
Ev(type, c, loaded) == [type |-> type, plugin_class |-> c, loaded |-> loaded]

\* The state a handler works on: the instances, the events it triggered,
\* what the loaded plugins hold of their dependencies and, as history, the
\* init() calls it made, the init and clear hooks it ran in their order, and
\* the count of instances between init and clear.
Handler(inst) ==
    [inst |-> inst, out |-> <<>>, inits |-> <<>>, hooks |-> <<>>, held |-> dep_held,
     inited |-> inited]

Hook(hook, c) == [hook |-> hook, plugin_class |-> c]

\* The plugins after an instance of class c has gone: where one of them was
\* handed that instance in on_dep_load, what it holds is a cleared instance.
held_after_unload(h, c) ==
    [x \in PluginIds |->
        IF x = c THEN <<>>
        ELSE [k \in 1..Len(h[x]) |->
                 IF h[x][k].plugin_class = c
                 THEN [h[x][k] EXCEPT !.cleared = TRUE]
                 ELSE h[x][k]]]

\* An unload that drops the instance without calling its clear().
unload_no_clear(s, c) ==
    IF s.inst[c] = 0 THEN s
    ELSE [s EXCEPT !.inst[c] = 0, !.held = held_after_unload(s.held, c)]

\* BasePlugin.unload(): nothing without an instance, else clear() and
\* instance = None.
unload(s, c) ==
    IF s.inst[c] = 0 THEN s
    ELSE [s EXCEPT !.inst[c] = 0,
                   !.hooks = Append(@, Hook("clear", c)),
                   !.inited[c] = @ - 1,
                   !.held = held_after_unload(s.held, c)]

\* self.dep(dc): the first loaded plugin that is an instance of dc ("" where
\* the assert would fail).
dep(inst, pcs, dc) ==
    IF Len(get_loaded_plugins(inst, pcs, dc)) = 0 THEN ""
    ELSE get_loaded_plugins(inst, pcs, dc)[1]

\* History of one cls.instance.init() call: whether each dependency target
\* had a loaded instance then, and a loaded instance of an enabled class.
InitCall(inst, pcs, cfg, c) ==
    [plugin_class |-> c,
     reload |-> inst[c] # 0,
     deps_loaded |-> check_deps([inst EXCEPT ![c] = 0], pcs, c),
     deps_enabled |->
        \A k \in 1..Len(deps(c)) :
            \E i \in 1..Len(pcs) :
                /\ pcs[i] # c
                /\ inst[pcs[i]] # 0
                /\ cfg[pcs[i]]
                /\ issubclass(pcs[i], deps(c)[k])]

\* BasePlugin.load(): an existing instance is unloaded first and the load is
\* then announced as a reload; the new instance gets init() and then, per
\* dependency, on_dep_load(self.dep(dc)).
load(s, pcs, cfg, c) ==
    LET u == unload(s, c)
        created == [u.inst EXCEPT ![c] = 1]
    IN  [inst |-> created,
         out |-> IF s.inst[c] # 0
                 THEN Append(s.out, Ev("PluginReloadEvent", c, {}))
                 ELSE s.out,
         inits |-> Append(s.inits, InitCall(s.inst, pcs, cfg, c)),
         hooks |-> Append(u.hooks, Hook("init", c)),
         inited |-> [u.inited EXCEPT ![c] = @ + 1],
         held |-> [u.held EXCEPT ![c] =
                      [k \in 1..Len(deps(c)) |->
                          [plugin_class |-> dep(created, pcs, deps(c)[k]),
                           cleared |-> FALSE]]]]

\* PluginManager.try_load_single_plugin(plugin_class), with its loop over
\* plugin_classes[index:] from position i on.
RECURSIVE try_load_single_plugin(_, _, _, _), try_load_rest(_, _, _, _, _)
try_load_single_plugin(s, pcs, cfg, c) ==
    IF check_deps(s.inst, pcs, c)
    THEN try_load_rest(load(s, pcs, cfg, c), pcs, cfg, c, index(pcs, c))
    ELSE s
try_load_rest(s, pcs, cfg, c, i) ==
    IF i > Len(pcs) THEN s
    ELSE try_load_rest(IF cfg[pcs[i]] /\ s.inst[pcs[i]] = 0
                       THEN try_load_single_plugin(s, pcs, cfg, pcs[i])
                       ELSE s,
                       pcs, cfg, c, i + 1)

\* PluginManager.unload_single_plugin(plugin_class), with its loop over
\* plugin_classes[index:] from position i on.
RECURSIVE unload_single_plugin(_, _, _), unload_rest(_, _, _, _)
unload_single_plugin(s, pcs, c) ==
    unload_rest(unload(s, c), pcs, c, index(pcs, c))
unload_rest(s, pcs, c, i) ==
    IF i > Len(pcs) THEN s
    ELSE unload_rest(IF s.inst[pcs[i]] # 0 /\ ~check_deps(s.inst, pcs, pcs[i])
                     THEN unload_single_plugin(s, pcs, pcs[i])
                     ELSE s,
                     pcs, c, i + 1)

\* PluginManager.loaded_plugins(), as a set of classes.
loaded_plugins(inst) == {c \in PluginIds : inst[c] # 0}

\* PluginManager.refresh_agent_data(): the prompt and the tools are computed
\* from the loaded plugins and published in a PluginRefreshEvent.
refresh_agent_data(s) ==
    [s EXCEPT !.out = Append(@, Ev("PluginRefreshEvent", "", loaded_plugins(s.inst)))]

\* An on_plugin_config_update that publishes the agent data first.
on_plugin_config_update_refresh_first(s, pcs, cfg, c) ==
    IF cfg[c]
    THEN try_load_single_plugin(refresh_agent_data(s), pcs, cfg, c)
    ELSE unload_single_plugin(refresh_agent_data(s), pcs, c)

\* PluginManager.on_plugin_config_update(plugin_class).
on_plugin_config_update(s, pcs, cfg, c) ==
    refresh_agent_data(IF cfg[c]
                       THEN try_load_single_plugin(s, pcs, cfg, c)
                       ELSE unload_single_plugin(s, pcs, c))

\* `get_loaded_plugins(dep) is plugin_class.instance`: the list built by
\* get_loaded_plugins is a new object, never the plugin instance.
is_instance(loaded, c) == FALSE

\* PluginManager.plugin_reload_dispatch(plugin_class): the plugin classes
\* whose instance gets an on_dep_load call.
plugin_reload_dispatch(inst, pcs, c) ==
    {pcs[i] : i \in {j \in index(pcs, c)..Len(pcs) :
        /\ inst[pcs[j]] # 0
        /\ \E k \in 1..Len(deps(pcs[j])) :
              is_instance(get_loaded_plugins(inst, pcs, deps(pcs[j])[k]), c)}}

\* PluginManager.infos(): per group title the keys of all loaded plugins are
\* collected into `names`, and `assert len(names) == len(set(names))` fails
\* when two of them contribute the same key.
infos(inst, pcs) ==
    IF \E i, j \in 1..Len(pcs) :
          /\ i < j
          /\ inst[pcs[i]] # 0 /\ inst[pcs[j]] # 0
          /\ plugin_infos(pcs[i]) \cap plugin_infos(pcs[j]) # {}
    THEN "raised"
    ELSE "ok"

\* A loop of PluginManager.init that gives up at the first class it cannot load.
RECURSIVE init_loop_break(_, _, _, _)
init_loop_break(s, pcs, cfg, i) ==
    IF i > Len(pcs) THEN s
    ELSE IF cfg[pcs[i]] /\ ~check_deps(s.inst, pcs, pcs[i]) THEN s
    ELSE init_loop_break(IF cfg[pcs[i]] THEN load(s, pcs, cfg, pcs[i]) ELSE s,
                         pcs, cfg, i + 1)

\* The loop of PluginManager.init over plugin_classes from position i on.
RECURSIVE init_loop(_, _, _, _)
init_loop(s, pcs, cfg, i) ==
    IF i > Len(pcs) THEN s
    ELSE init_loop(IF cfg[pcs[i]] /\ check_deps(s.inst, pcs, pcs[i])
                   THEN load(s, pcs, cfg, pcs[i])
                   ELSE s,
                   pcs, cfg, i + 1)

\* The plugin sets of a plugins/ directory: the shipped pet with its
\* expression plugins; a directory with move but no plugin that provides
\* PetPluginProtocol; a directory with the ring; a directory with the two
\* plugins that report the mood.
Installs ==
    {{"pet_state", "live2d_pet", "expression", "expression_adapter"},
     {"pet_state", "expression", "move"},
     {"pet_state", "ring_a", "ring_b"},
     {"pet_state", "mood_fx"}}

\* A plugins/ directory with two pet plugins, each providing
\* PetPluginProtocol, and move, which depends on that capability.
TwoPets == {"live2d_pet", "vrm_pet", "move"}

\* The orders in which plugins_root.rglob("plugin.py") can find the classes:
\* the directories come in the order the file system lists them, and a
\* directory's own plugin.py before those of its subdirectories.
OrdersOf(I) ==
    {f \in [1..Cardinality(I) -> I] :
        /\ \A i, j \in 1..Cardinality(I) : i # j => f[i] # f[j]
        /\ \A i, j \in 1..Cardinality(I) :
              f[i] = "live2d_pet" /\ f[j] = "expression_adapter" => i < j}

ScanOrders == UNION {OrdersOf(I) : I \in Installs}

Classes(pcs) == {pcs[i] : i \in 1..Len(pcs)}

\* The thread each entry point runs on: main() calls pm.init() itself, and
\* PluginManager.on_event is the slot of the EventBridge signal, which Qt
\* runs on the thread of the bridge, the GUI thread; the config window calls
\* update_config from a button handler.
CallSite(op) ==
    CASE op = "init" -> "main"
      [] op = "on_event" -> "main"
      [] op = "update_config" -> "main"
      [] OTHER -> "worker"

\* The events of a handler that PluginManager.on_event acts on.  A
\* PluginRefreshEvent is for the agent and the plugins' own on_event.
ForManager(out) == SelectSeq(out, LAMBDA e : e.type # "PluginRefreshEvent")

\* A config object handed to update_config: its `enabled` field, and whether
\* its other fields equal those of the cached config ("same") or not
\* ("changed").  NoConfig stands for no such object.
Configs == [enabled : BOOLEAN, rest : {"same", "changed"}]
NoConfig == [enabled |-> FALSE, rest |-> ""]

\* `config == cls._config`: the dataclass __eq__ compares every field.
config_eq(new, cached_enabled) == new.enabled = cached_enabled /\ new.rest = "same"

\* An update_config without the comparison at line 99.
update_config_always(cfg, q, c, new) ==
    [wrote |-> TRUE,
     config |-> [cfg EXCEPT ![c] = new.enabled],
     queue |-> Append(q, Ev("PluginConfigUpdateEvent", c, {}))]

\* The body of update_config: return when the config equals the cached one,
\* else write config.yaml, cache the config and trigger
\* PluginConfigUpdateEvent (lines 99-104).
update_config_state(cfg, q, c, new) ==
    IF config_eq(new, cfg[c])
    THEN [wrote |-> FALSE, config |-> cfg, queue |-> q]
    ELSE [wrote |-> TRUE,
          config |-> [cfg EXCEPT ![c] = new.enabled],
          queue |-> Append(q, Ev("PluginConfigUpdateEvent", c, {}))]

\* History: what the last PluginManager entry point did for plugin class c
\* (found: the discovery order, before: the instances when it began, s: the
\* handler's result, notified: the on_dep_load calls).
PmDone(op, type, c, found, before, s, notified) ==
    [op |-> op, type |-> type, plugin_class |-> c,
     thread |-> CallSite(op), outcome |-> "ok", found |-> found,
     was_loaded |-> c \in PluginIds /\ before[c] # 0,
     deps_were_loaded |-> c \in PluginIds /\ check_deps(before, plugin_classes, c),
     changed |-> Cardinality({x \in PluginIds : s.inst[x] # before[x]}),
     inits |-> s.inits, triggered |-> s.out, notified |-> notified,
     hooks |-> s.hooks, new |-> NoConfig, wrote |-> FALSE]

\* PluginManager.init(): order the classes, load the enabled ones whose
\* dependencies are loaded, publish the agent data.  Neither
\* load_all_plugin_classes nor the loop has a raise.  Only the discovered
\* classes can have a config file that enables them.
init(found) ==
    LET pcs == load_all_plugin_classes(found)
        s == refresh_agent_data(init_loop(Handler(instance), pcs, config, 1))
    IN  /\ plugin_classes = <<>>
        /\ \A c \in PluginIds \ Classes(found) : ~config[c]
        /\ plugin_classes' = pcs
        /\ instance' = s.inst
        /\ dep_held' = s.held
        /\ inited' = s.inited
        /\ pmQueue' = pmQueue \o ForManager(s.out)
        /\ pmLast' = PmDone("init", "", "", found, instance, s, {})
        /\ UNCHANGED <<config, tmVars, wVars, move, fnVars, auxVars>>

\* The PluginConfigUpdateEvents among the waiting events.
Pending(q) == Len(SelectSeq(q, LAMBDA e : e.type = "PluginConfigUpdateEvent"))

\* BasePlugin.update_config(config) of class c, called by the config window.
\* After init the cache of every class holds what its config.yaml holds.
update_config(c, new) ==
    LET r == update_config_state(config, pmQueue, c, new) IN
    /\ plugin_classes # <<>>
    /\ c \in Classes(plugin_classes)
    /\ Len(pmQueue) < MaxPending
    /\ config' = r.config
    /\ pmQueue' = r.queue
    /\ pmLast' = [PmDone("update_config", "", c, <<>>, instance, Handler(instance), {})
                     EXCEPT !.new = new, !.wrote = r.wrote]
    /\ UNCHANGED <<plugin_classes, instance, dep_held, inited, tmVars, wVars, move, fnVars,
                   auxVars>>

\* PluginManager.trigger_event submits TaskManager.trigger_event to the
\* worker, so a triggered event waits in the worker's queue; this is
\* PluginManager.on_event(e) for the oldest one.  Any other event goes to
\* the plugins' own on_event and leaves the manager as it is.
on_event ==
    LET e == Head(pmQueue)
        s == IF e.type = "PluginConfigUpdateEvent"
             THEN on_plugin_config_update(Handler(instance), plugin_classes, config,
                                          e.plugin_class)
             ELSE Handler(instance)
        notified == IF e.type = "PluginReloadEvent"
                    THEN plugin_reload_dispatch(instance, plugin_classes, e.plugin_class)
                    ELSE {}
    IN  /\ pmQueue # <<>>
        /\ instance' = s.inst
        /\ dep_held' = s.held
        /\ inited' = s.inited
        /\ pmQueue' = Tail(pmQueue) \o ForManager(s.out)
        /\ pmLast' = PmDone("on_event", e.type, e.plugin_class, <<>>, instance, s,
                            notified)
        /\ UNCHANGED <<plugin_classes, config, tmVars, wVars, move, fnVars, auxVars>>

\* The agent builds its messages: info_parts.extend(PluginManager.infos()),
\* the only caller of infos().
Infos ==
    /\ plugin_classes # <<>>
    /\ pmLast' = [PmDone("infos", "", "", <<>>, instance, Handler(instance), {})
                     EXCEPT !.outcome = infos(instance, plugin_classes)]
    /\ UNCHANGED <<plugin_classes, config, instance, pmQueue, dep_held, inited, tmVars, wVars,
                   move, fnVars, auxVars>>

(* ------------------------ load_config / get_config --------------------- *)
\* Plugin classes whose config is read here.
ConfigOwners == {"pet_state", "move"}

\* What config.yaml can hold: nothing (no file), the dump of the config
\* type's defaults, the dump of another config of that type, text that is
\* not YAML, or a YAML document that is not a mapping of the type's fields.
FileContents == {"absent", "defaults", "custom", "bad_yaml", "bad_fields"}

\* cls.config_type()(): the config type's defaults.
DefaultConfig == "defaults"

CfgDone(op, c, outcome, file, wrote, triggered) ==
    [op |-> op, plugin_class |-> c, outcome |-> outcome, file |-> file,
     wrote |-> wrote, triggered |-> triggered]

\* Lines 85-86 for a file that exists: yaml.load raises on text that is not
\* YAML, config_type()(**config_dict) raises on a document that does not map
\* the type's fields; nothing catches either.
parse_config(content) ==
    IF content \in {"bad_yaml", "bad_fields"}
    THEN [outcome |-> "raised", config |-> "none"]
    ELSE [outcome |-> "ok", config |-> content]

\* load_config with cls._config None: a file that exists is parsed into the
\* cache; for a missing file update_config(defaults) writes the defaults,
\* caches them and triggers PluginConfigUpdateEvent, and the second
\* load_config reads the file just written.
load_config(content) ==
    IF content # "absent"
    THEN [outcome |-> parse_config(content).outcome, file |-> content,
          cache |-> parse_config(content).config, wrote |-> FALSE, triggered |-> 0]
    ELSE [outcome |-> "ok", file |-> DefaultConfig,
          cache |-> parse_config(DefaultConfig).config, wrote |-> TRUE, triggered |-> 1]

\* cls.get_config(): load_config on the first access, the cache afterwards.
get_config(c) ==
    LET r == load_config(config_file[c]) IN
    /\ IF cached_config[c] = "none"
       THEN /\ config_file' = [config_file EXCEPT ![c] = r.file]
            /\ cached_config' = [cached_config EXCEPT ![c] = r.cache]
            /\ cfgLast' = CfgDone("get_config", c, r.outcome, config_file[c], r.wrote,
                                  r.triggered)
       ELSE /\ cfgLast' = CfgDone("get_config", c, "ok", config_file[c], FALSE, 0)
            /\ UNCHANGED <<config_file, cached_config>>
    /\ UNCHANGED <<tmVars, wVars, pmVars, move, fnVars, dragVars, agVars, prVars>>

\* The config window saves a config of class c that differs from the cached
\* one: update_config writes it and caches it.
SaveConfig(c, new) ==
    /\ cached_config[c] \notin {"none", new}
    /\ config_file' = [config_file EXCEPT ![c] = new]
    /\ cached_config' = [cached_config EXCEPT ![c] = new]
    /\ cfgLast' = CfgDone("update_config", c, "ok", config_file[c], TRUE, 1)
    /\ UNCHANGED <<tmVars, wVars, pmVars, move, fnVars, dragVars, agVars, prVars>>

\* The program is started again: every cache is None, and config.yaml of any
\* class is whatever the user left in the plugin directory meanwhile.
Restart ==
    /\ config_file' \in [ConfigOwners -> FileContents]
    /\ cached_config' = [c \in ConfigOwners |-> "none"]
    /\ cfgLast' = CfgDone("restart", "", "ok", "", FALSE, 0)
    /\ UNCHANGED <<tmVars, wVars, pmVars, move, fnVars, dragVars, agVars, prVars>>

(* ---------------------------- merge_str_dict --------------------------- *)
\* Prompt slot keys and the text fragments plugins contribute; a str is the
\* sequence of its characters.
SlotKeys == {"role", "rules"}
Fragments == {<<>>, <<"a">>, <<"b">>}
Separators == {<<"\n">>, <<",", " ">>}

\* A dict: its items in insertion order, the keys distinct.
Dicts ==
    {<<>>}
    \cup {<<<<k, v>>>> : k \in SlotKeys, v \in Fragments}
    \cup {<<<<k1, v1>>, <<k2, v2>>>> :
              <<k1, k2>> \in {kk \in SlotKeys \X SlotKeys : kk[1] # kk[2]},
              <<v1, v2>> \in Fragments \X Fragments}

\* The index of key in the items of a dict, 0 when absent (`key in result`).
ItemIndex(d, key) ==
    IF \E i \in 1..Len(d) : d[i][1] = key
    THEN CHOOSE i \in 1..Len(d) : d[i][1] = key
    ELSE 0

\* An update that puts the new value in front of the old one.
merge_item_prepend(result, key, value, sep) ==
    IF ItemIndex(result, key) # 0
    THEN [result EXCEPT ![ItemIndex(result, key)] = <<key, value \o sep \o @[2]>>]
    ELSE Append(result, <<key, value>>)

\* Lines 276-279: `result[key] += sep + value` for a key that is present,
\* `result[key] = value` otherwise.
merge_item(result, key, value, sep) ==
    IF ItemIndex(result, key) # 0
    THEN [result EXCEPT ![ItemIndex(result, key)] = <<key, @[2] \o (sep \o value)>>]
    ELSE Append(result, <<key, value>>)

\* `for key, value in ps.items()` from item i on.
RECURSIVE merge_items(_, _, _, _)
merge_items(result, ps, i, sep) ==
    IF i > Len(ps) THEN result
    ELSE merge_items(merge_item(result, ps[i][1], ps[i][2], sep), ps, i + 1, sep)

\* `for ps in dicts` from dict d on.
RECURSIVE merge_dicts(_, _, _, _)
merge_dicts(result, dicts, d, sep) ==
    IF d > Len(dicts) THEN result
    ELSE merge_dicts(merge_items(result, dicts[d], 1, sep), dicts, d + 1, sep)

\* PluginManager.merge_str_dict(dicts, sep).
merge_str_dict(dicts, sep) == merge_dicts(<<>>, dicts, 1, sep)

\* No merge_str_dict call has returned.
NoCall == <<"none">>

\* create_system_prompt calls merge_str_dict(plugin_prompt_comps).
MergeStrDict ==
    /\ merged = NoCall
    /\ merged' = merge_str_dict(fragments.dicts, fragments.sep)
    /\ UNCHANGED <<fragments, tmVars, wVars, pmVars, move, auxVars>>

(* ---------------------------- initial states --------------------------- *)
\* No config has been read: every plugin directory holds the defaults.
ConfigIdle ==
    /\ config_file = [c \in ConfigOwners |-> DefaultConfig]
    /\ cached_config = [c \in ConfigOwners |-> "none"]
    /\ cfgLast = CfgDone("init", "", "ok", "", FALSE, 0)

\* The drag plugin after init: not dragging, nothing submitted.
DragIdle ==
    /\ dragging = FALSE
    /\ calls = <<>>

\* The core plugin's Agent after __init__: no run task.
AgentIdle ==
    /\ agent_class = "core"
    /\ agent_task = 0
    /\ run_task = [r \in RunIds |-> "none"]
    /\ create_queued = 0
    /\ agLast = "init"

\* The framework's parser after __init__, no reply yet.
ParserIdle ==
    /\ parser_src = "framework"
    /\ pieces = <<>>
    /\ fed = 0
    /\ parser = StreamMarkerParser
    /\ returned = <<>>
    /\ marker_events = <<>>
    /\ prLast = [op |-> "init", outcome |-> "ok", chunk |-> 0]

\* The state outside the TaskManager, the worker and the plugin manager.
AuxIdle == ConfigIdle /\ DragIdle /\ AgentIdle /\ ParserIdle

\* No merge_str_dict call has been made.
MergeIdle ==
    /\ fragments = [dicts |-> <<>>, sep |-> <<"\n">>]
    /\ merged = NoCall

\* The plugin classes before PluginManager.init(): nothing loaded.
PluginManagerIdle ==
    /\ plugin_classes = <<>>
    /\ config = [c \in PluginIds |-> FALSE]
    /\ instance = [c \in PluginIds |-> 0]
    /\ pmQueue = <<>>
    /\ dep_held = [c \in PluginIds |-> <<>>]
    /\ inited = [c \in PluginIds |-> 0]
    /\ pmLast = PmDone("idle", "", "", <<>>, instance, Handler(instance), {})

\* The TaskManager class right after import.
TaskManagerInit ==
    /\ tasks = <<>>
    /\ atask = [t \in TaskIds |-> "none"]
    /\ taskName = [t \in TaskIds |-> ""]
    /\ event_callbacks = <<>>
    /\ cb_of = [key \in CallbackKeys |-> ""]
    /\ cb_lock = "free"
    /\ last = Done("init", "ok", "", 0)
    /\ move = [t \in TaskIds |-> NoMove]

(* ----------------------- TaskManager specification --------------------- *)
InitTM ==
    TaskManagerInit /\ ThreadedWorkerInit /\ PluginManagerIdle /\ MergeIdle /\ AuxIdle

NextTM ==
    \/ \E name \in TaskNames, pos \in 0..(Len(tasks) + Len(event_callbacks) + 1),
          kind \in {"raise", "nested"} : add_task(name, pos, kind, NoMove)
    \/ \E pos \in 0..(Len(tasks) + Len(event_callbacks)), kind \in {"raise", "nested"} :
          TriggerEvent(pos, kind)
    \/ \E key \in CallbackKeys : register_callback(key, MainCallback(key))
    \/ \E key \in CallbackKeys : remove_callback(key)
    \/ \E tid \in TaskIds : TaskReturn(tid)
    \/ \E tid \in TaskIds : TaskFault(tid)
    \/ \E tid \in TaskIds : TaskCancelled(tid)

SpecTM == InitTM /\ [][NextTM]_vars


(* ------------------------- MoveTask specification ---------------------- *)
\* Move tools submit MoveTasks; the tasks run step by step on the loop; the
\* user may drag the pet meanwhile.
InitMove ==
    TaskManagerInit /\ ThreadedWorkerInit /\ PluginManagerIdle /\ MergeIdle /\ AuxIdle

NextMove ==
    \/ \E init_pos \in Positions, target \in Targets, mode \in Modes :
          add_task("MoveTask", 0, "raise", MoveTask(init_pos, target, mode))
    \/ \E tid \in TaskIds : MoveStep(tid)
    \/ \E tid \in TaskIds : TaskCancelled(tid)
    \/ UserMove

SpecMove == InitMove /\ [][NextMove]_vars

(* ------------------------ callbacks specification --------------------- *)
\* The callback map under any registrations: every callable under every key.
InitCB ==
    TaskManagerInit /\ ThreadedWorkerInit /\ PluginManagerIdle /\ MergeIdle /\ AuxIdle

NextCB ==
    \/ \E key \in CallbackKeys, cb \in Callbacks : register_callback(key, cb)
    \/ \E key \in CallbackKeys : remove_callback(key)
    \/ \E pos \in 0..(Len(tasks) + Len(event_callbacks)), kind \in {"raise", "nested"} :
          TriggerEvent(pos, kind)

SpecCB == InitCB /\ [][NextCB]_vars

(* ---------------------- ThreadedWorker specification ------------------- *)
InitW ==
    TaskManagerInit /\ ThreadedWorkerInit /\ PluginManagerIdle /\ MergeIdle /\ AuxIdle

NextW ==
    \/ start
    \/ stop
    \/ \E h \in Handles, fn \in Callables : submit_task(h, fn)
    \/ LoopRun
    \/ LoopExit

SpecW == InitW /\ [][NextW]_vars

(* ----------------------- PluginManager specification ------------------- *)
\* Any persisted `enabled` flags of the plugins of one directory.
InitPM ==
    /\ TaskManagerInit
    /\ ThreadedWorkerInit
    /\ MergeIdle
    /\ AuxIdle
    /\ plugin_classes = <<>>
    /\ \E I \in Installs :
          config \in {f \in [PluginIds -> BOOLEAN] : \A c \in PluginIds \ I : ~f[c]}
    /\ instance = [c \in PluginIds |-> 0]
    /\ pmQueue = <<>>
    /\ dep_held = [c \in PluginIds |-> <<>>]
    /\ inited = [c \in PluginIds |-> 0]
    /\ pmLast = PmDone("idle", "", "", <<>>, instance, Handler(instance), {})

NextPM ==
    \/ \E found \in ScanOrders : init(found)
    \/ \E c \in PluginIds, new \in Configs : update_config(c, new)
    \/ on_event
    \/ Infos

SpecPM == InitPM /\ [][NextPM]_vars

(* ------------------- PluginManager with two pet plugins ---------------- *)
\* Any persisted `enabled` flags of the plugins of the directory TwoPets.
InitDep ==
    /\ TaskManagerInit
    /\ ThreadedWorkerInit
    /\ MergeIdle
    /\ AuxIdle
    /\ plugin_classes = <<>>
    /\ config \in {f \in [PluginIds -> BOOLEAN] : \A c \in PluginIds \ TwoPets : ~f[c]}
    /\ instance = [c \in PluginIds |-> 0]
    /\ pmQueue = <<>>
    /\ dep_held = [c \in PluginIds |-> <<>>]
    /\ inited = [c \in PluginIds |-> 0]
    /\ pmLast = PmDone("idle", "", "", <<>>, instance, Handler(instance), {})

NextDep ==
    \/ \E found \in OrdersOf(TwoPets) : init(found)
    \/ \E c \in PluginIds, new \in Configs : update_config(c, new)
    \/ on_event
    \/ Infos

SpecDep == InitDep /\ [][NextDep]_vars

(* ---------------------- merge_str_dict specification ------------------- *)
\* Any sequence of at most MaxDicts dicts and any separator.
InitMerge ==
    /\ TaskManagerInit /\ ThreadedWorkerInit /\ PluginManagerIdle /\ AuxIdle
    /\ \E n \in 0..MaxDicts : \E ds \in [1..n -> Dicts], sep \in Separators :
          fragments = [dicts |-> ds, sep |-> sep]
    /\ merged = NoCall

NextMerge == MergeStrDict

SpecMerge == InitMerge /\ [][NextMerge]_vars

(* ------------------------- config.yaml specification ------------------- *)
\* Any config.yaml in each plugin directory when the program starts.
InitCfg ==
    /\ TaskManagerInit /\ ThreadedWorkerInit /\ PluginManagerIdle /\ MergeIdle
    /\ DragIdle /\ AgentIdle /\ ParserIdle
    /\ config_file \in [ConfigOwners -> FileContents]
    /\ cached_config = [c \in ConfigOwners |-> "none"]
    /\ cfgLast = CfgDone("init", "", "ok", "", FALSE, 0)

NextCfg ==
    \/ \E c \in ConfigOwners : get_config(c)
    \/ \E c \in ConfigOwners, new \in {"defaults", "custom"} : SaveConfig(c, new)
    \/ Restart

SpecCfg == InitCfg /\ [][NextCfg]_vars

(* ------------------------- drag plugin specification ------------------- *)
\* The worker has been started; the user drags the pet, the loop runs what
\* the drag plugin submits, DragTasks run on the loop.
InitDrag ==
    /\ TaskManagerInit /\ PluginManagerIdle /\ MergeIdle /\ AuxIdle
    /\ thread = "alive"
    /\ ready = <<>>
    /\ batch = 0
    /\ stopping = FALSE
    /\ stopCalled = FALSE
    /\ future = [h \in Handles |-> NoFuture]
    /\ wlast = WDone("start", "ok")

NextDrag ==
    \/ mouse_move
    \/ mouse_release
    \/ RunSubmitted
    \/ \E tid \in TaskIds : DragTaskReturn(tid)

SpecDrag == InitDrag /\ [][NextDrag]_vars

\* The loop thread keeps running what is queued, and a sleeping DragTask
\* wakes after check_interval; the user is free to stop using the mouse.
SpecDragLive ==
    /\ SpecDrag
    /\ WF_vars(RunSubmitted)
    /\ \A tid \in TaskIds : WF_vars(DragTaskReturn(tid))

(* ----------------------------- Agent specification --------------------- *)
\* Either Agent class, restarted by PluginRefreshEvents while the loop runs.
InitAgent ==
    /\ TaskManagerInit /\ ThreadedWorkerInit /\ PluginManagerIdle /\ MergeIdle
    /\ ConfigIdle /\ DragIdle /\ ParserIdle
    /\ agent_class \in {"core", "framework"}
    /\ agent_task = 0
    /\ run_task = [r \in RunIds |-> "none"]
    /\ create_queued = 0
    /\ agLast = "init"

NextAgent ==
    \/ AgentStart
    \/ AgentCreateTask
    \/ AgentStop
    \/ AgentInit
    \/ \E r \in RunIds : RunCancelled(r)

SpecAgent == InitAgent /\ [][NextAgent]_vars

(* ---------------------- StreamMarkerParser specification --------------- *)
\* Either parser, fresh, and any reply of up to MaxPieces pieces, handed to
\* process in any chunking.
InitParser ==
    /\ TaskManagerInit /\ ThreadedWorkerInit /\ PluginManagerIdle /\ MergeIdle
    /\ ConfigIdle /\ DragIdle /\ AgentIdle
    /\ parser_src \in {"framework", "core"}
    /\ \E n \in 0..MaxPieces : pieces \in [1..n -> Pieces]
    /\ fed = 0
    /\ parser = StreamMarkerParser
    /\ returned = <<>>
    /\ marker_events = <<>>
    /\ prLast = [op |-> "init", outcome |-> "ok", chunk |-> 0]

NextParser == \E k \in 1..(MaxPieces * 8) : process(k)

SpecParser == InitParser /\ [][NextParser]_vars

(* ------------------------- TaskManager properties ---------------------- *)
Running(t) == atask[t] = "pending"

\* C1: for every task name at most one task of that name is running (a task
\* whose cancellation was requested only unwinds and no longer counts), the
\* dict holds one entry per name, and after a same-name submission that
\* started a task the old one is no longer running.
C1_TaskNameUnique ==
    /\ \A t, u \in TaskIds : (t # u /\ Running(t) /\ Running(u)) => taskName[t] # taskName[u]
    /\ \A i, j \in 1..Len(tasks) : i # j => tasks[i].name # tasks[j].name
    /\ (last.op = "add_task" /\ last.old # 0 /\ last.new # 0) => ~Running(last.old)

C1_Witness ==
    /\ last.op = "add_task" /\ last.outcome = "replaced"
    /\ atask[last.old] = "cancelling"
    /\ Running(last.new)

\* C2: when add_task replaced a running task, the old task is cancelled, the
\* selected task is registered under the shared name and started, and the
\* NewTaskEvent was broadcast after that (the selected task's on_event got
\* it, the old task's did not); no state between these steps is visible: a
\* task whose cancellation was requested is never the registered one.
C2_ReplaceOrder ==
    /\ \A i \in 1..Len(tasks) : atask[tasks[i].tid] \notin {"cancelling", "cancelled"}
    /\ (last.op = "add_task" /\ last.old # 0 /\ last.new # 0) =>
          /\ ~Running(last.old)
          /\ tasks_get(tasks, last.name) = last.new
          /\ Running(last.new)
          /\ last.broadcasts = 1
          /\ \A i \in 1..Len(last.order) : last.order[i].tid # last.old
          /\ last.outcome = "replaced" =>
                \E i \in 1..Len(last.order) :
                    last.order[i] = [ev |-> 1, kind |-> "task", id |-> last.name,
                                     tid |-> last.new]

C2_Witness ==
    /\ last.op = "add_task" /\ last.outcome = "replaced"
    /\ atask[last.old] = "cancelling"
    /\ Len(tasks) = 1 /\ Len(last.order) = 3

\* C3: every add_task call that returns broadcasts exactly one NewTaskEvent,
\* whether the task started first, replaced a running one or was rejected.
C3_EveryAddTaskBroadcasts ==
    (last.op = "add_task" /\ last.outcome \in {"first", "replaced", "rejected"})
        => last.broadcasts = 1

\* C4: an add_task whose merge returned nothing changes nothing: the dict,
\* the asyncio tasks and the set of Task objects stay as they were, the old
\* task stays registered under the name.
C4_RejectChangesNothing ==
    [][(last'.op = "add_task" /\ last'.outcome = "rejected") =>
          /\ tasks' = tasks /\ atask' = atask /\ taskName' = taskName
          /\ tasks_get(tasks', last'.name) = last'.old]_vars

C4_Witness ==
    /\ last.op = "add_task" /\ last.outcome = "rejected"
    /\ Running(last.old)
    /\ tasks_get(tasks, last.name) = last.old

\* C5: a task whose execute raised has no entry in the running set.
C5_FaultRemovesEntry ==
    \A i \in 1..Len(tasks) : atask[tasks[i].tid] # "faulted"

\* The deliveries of event number e made by the last handler, in order.
DeliveriesOf(e) == SelectSeq(last.order, LAMBDA x : x.ev = e)

\* C6: every task registered and every callback registered at the time of a
\* trigger_event call receives the event exactly once, and every recipient
\* sees the events in the order of the calls.
C6_BroadcastComplete ==
    (last.nev > 0) =>
        /\ \A e \in 1..last.nev :
              /\ \A i \in 1..Len(tasks) :
                    Cardinality({k \in 1..Len(last.order) :
                        last.order[k].ev = e /\ last.order[k].tid = tasks[i].tid}) = 1
              /\ \A i \in 1..Len(event_callbacks) :
                    Cardinality({k \in 1..Len(last.order) :
                        /\ last.order[k].ev = e /\ last.order[k].kind = "cb"
                        /\ last.order[k].id = event_callbacks[i]}) = 1
        /\ \A k, l \in 1..Len(last.order) :
              (k < l /\ last.order[k].kind = last.order[l].kind
                     /\ last.order[k].id = last.order[l].id)
                  => last.order[k].ev <= last.order[l].ev

C21_CallsReturn ==
    /\ cb_lock = "free"
    /\ last.op \in {"add_task", "trigger_event"} => last.outcome # "blocked"


\* C22: register_callback with a key that is registered raises and stores
\* nothing: the keys, their order and the callable under every key stay as
\* they were, so the callable registered first is the one trigger_event
\* calls for that key.
C22_DuplicateKeyFails ==
    [][(/\ last'.op = "register_callback"
        /\ \E i \in 1..Len(event_callbacks) : event_callbacks[i] = last'.name) =>
          /\ last'.outcome = "raised"
          /\ event_callbacks' = event_callbacks
          /\ cb_of' = cb_of]_vars

\* A registration of another callable under a registered key was refused.
C22_Witness ==
    /\ last.op = "register_callback" /\ last.outcome = "raised"
    /\ cb_of[last.name] \in Callbacks
    /\ cb_of[last.name] # last.cb


\* C24: when a task's execute returns normally, the entry under its name is
\* its own and exactly that entry leaves the dict; when a replaced task
\* unwinds from its cancellation the dict stays as it is; so every task that
\* is running keeps its entry.
C24_OwnEntryRemoved ==
    [][/\ last'.op = "task_return" =>
            /\ tasks_get(tasks, last'.name) = last'.old
            /\ tasks' = SelectSeq(tasks, LAMBDA en : en.tid # last'.old)
            /\ Len(tasks') = Len(tasks) - 1
       /\ last'.op = "task_cancelled" => tasks' = tasks
       /\ \A t \in TaskIds :
             atask'[t] = "pending" => tasks_get(tasks', taskName'[t]) = t]_vars

\* A replaced task has unwound while the task that replaced it is running
\* and registered.
C24_Witness ==
    /\ last.op = "task_cancelled"
    /\ atask[last.old] = "cancelled"
    /\ \E u \in TaskIds :
          /\ u # last.old /\ taskName[u] = last.name
          /\ Running(u)
          /\ tasks_get(tasks, last.name) = u

\* C25: an add_task for a name that no running task has starts the new
\* task, whatever its merge does: the task is registered under the name and
\* running when add_task is left.
C25_NoCollisionStarts ==
    [][(/\ last'.op = "add_task"
        /\ ~\E t \in TaskIds : Running(t) /\ taskName[t] = last'.name) =>
          /\ last'.new # 0
          /\ tasks_get(tasks', last'.name) = last'.new
          /\ atask'[last'.new] = "pending"]_vars

\* C32: an add_task for a task class that inherits Task.merge, made while a
\* task of that name is running, raises and changes nothing: the old task is
\* not cancelled and keeps its entry, no task is created or registered, and
\* no NewTaskEvent is delivered to anyone.
C32_DefaultMergeRaises ==
    [][(/\ last'.op = "add_task"
        /\ last'.name = "DragTask"
        /\ \E t \in TaskIds : Running(t) /\ taskName[t] = "DragTask") =>
          /\ last'.outcome = "raised"
          /\ tasks' = tasks
          /\ atask' = atask
          /\ taskName' = taskName
          /\ last'.new = 0
          /\ last'.broadcasts = 0
          /\ last'.order = <<>>]_vars

\* A second DragTask was submitted while the first is running: the call
\* raised and the first is still running under the name.
C32_Witness ==
    /\ last.op = "add_task"
    /\ last.name = "DragTask"
    /\ last.outcome = "raised"
    /\ Running(last.old)
    /\ tasks_get(tasks, "DragTask") = last.old

(* -------------------------- MoveTask properties ------------------------ *)
\* MoveTask u was submitted while MoveTask t was running, and replaced it.
Replaced(t, u) ==
    /\ t < u
    /\ taskName[t] = "MoveTask" /\ taskName[u] = "MoveTask"
    /\ atask[t] \in {"cancelling", "cancelled"}

\* C23: when a second MoveTask was submitted while a first was running, the
\* first is cancelled and triggers no finished MoveEvent; when the second
\* has run to its end the only finished MoveEvent is its own, and the
\* new_pos of that event is the second task's target.
C23_SecondMoveArrives ==
    \A t, u \in TaskIds : Replaced(t, u) =>
        /\ move[t].fired = <<>>
        /\ atask[u] = "returned" /\ move[u].running => move[u].fired = move[u].target

\* C34: a MoveTask that nothing interrupted (no user move reached it, no
\* later MoveTask replaced it) and that has ended has returned normally, and
\* the one finished MoveEvent it triggered carries its target, whatever the
\* distance between init_pos and target.
C34_UninterruptedMoveArrives ==
    \A t \in TaskIds :
        (/\ taskName[t] = "MoveTask"
         /\ move[t].running
         /\ atask[t] \in {"returned", "faulted"}) =>
            /\ atask[t] = "returned"
            /\ move[t].fired = move[t].target

\* C35: the next step of a running MoveTask that has received a user move
\* event ends the task without a MoveEvent: nothing is delivered, no
\* finished event is triggered and execute returns, at whichever iteration
\* of its loop the task was sleeping when the event arrived.
C35_UserMoveStops ==
    [][(last'.op = "move_step" /\ ~move[last'.old].running) =>
          /\ last'.outcome = "stopped"
          /\ last'.order = <<>>
          /\ move'[last'.old].fired = <<>>
          /\ atask'[last'.old] = "returned"]_vars

(* ----------------------- ThreadedWorker properties --------------------- *)
Queued(h) == \E i \in 1..Len(ready) : ready[i].h = h

\* C8: on a started worker (stop() not called) a handle whose work has run
\* to its end is resolved exactly once, with the callable's value or the
\* awaited result, or with the error the callable or its coroutine raised.
C8_HandleResolvedOnce ==
    \A h \in Handles :
        (future[h].state # "none" /\ ~stopCalled /\ ~Queued(h)) =>
            /\ future[h].sets = 1
            /\ future[h].fn \in {"sync_ok", "coro_ok"} => future[h].state = "result"
            /\ future[h].fn \in {"sync_raise", "coro_raise"} => future[h].state = "exception"

\* C9: once the worker has stopped, every handle of a submit_task call made
\* after stop() is resolved with an error.
C9_SubmitAfterStopFails ==
    thread = "ended" =>
        \A h \in Handles : future[h].afterStop => future[h].state = "exception"

\* The coroutine of handle h runs as an asyncio task that has not finished;
\* nothing in the worker ever cancels it.
InFlight(h) == \E i \in 1..Len(ready) : ready[i] = Item("step", h)

\* C26: when the loop has stopped after stop(), no task is left in flight
\* without having been cancelled and unwound.
C26_StopCancelsInFlight ==
    thread = "ended" => \A h \in Handles : ~InFlight(h)

\* C27: a call of start() on a class whose thread was created before, alive
\* or ended after stop(), raises and leaves the thread and the loop with
\* its queue as they are: no second thread, no second loop.
C27_StartOnce ==
    [][(wlast'.op = "start" /\ thread # "none") =>
          /\ wlast'.outcome = "raised"
          /\ thread' = thread
          /\ <<ready', batch', stopping'>> = <<ready, batch, stopping>>]_vars

\* start() was called after stop() had ended the thread, and raised.
C27_Witness ==
    /\ wlast = WDone("start", "raised")
    /\ thread = "ended"
    /\ stopCalled

(* ----------------------- PluginManager properties ---------------------- *)
\* C10: whenever no config update waits to be handled, every loaded plugin
\* belongs to a class whose persisted config is enabled and each of whose
\* dependency targets has a loaded instance.
C10_LoadedSetInvariant ==
    (plugin_classes # <<>> /\ Pending(pmQueue) = 0) =>
        \A c \in PluginIds : instance[c] # 0 =>
            /\ config[c]
            /\ check_deps(instance, plugin_classes, c)

\* C11: whenever a plugin's init is called (at startup, on enable, on
\* cascade load or on reload), each of its dependency targets has at that
\* moment a loaded instance of a class whose persisted config is enabled.
C11_DepsLoadedEnabledAtInit ==
    \A i \in 1..Len(pmLast.inits) :
        /\ pmLast.inits[i].deps_loaded
        /\ pmLast.inits[i].deps_enabled

\* The classes of I that an ordering can place after a match of each of
\* their dependency targets: the least set closed under "every target is
\* matched by a class of the set".
RECURSIVE Resolvable(_, _)
Resolvable(I, R) ==
    LET R2 == {c \in I : \A k \in 1..Len(deps(c)) :
                            \E d \in R : issubclass(d, deps(c)[k])}
    IN  IF R2 = R THEN R ELSE Resolvable(I, R2)

\* C12: for every discovery order, the list load_all_plugin_classes
\* produces has every class whose dependency targets can all be matched
\* after, for each of its targets, at least one class matching that target.
C12_LoadOrder ==
    \A i \in 1..Len(plugin_classes) :
        plugin_classes[i] \in Resolvable(Classes(plugin_classes), {}) =>
            \A k \in 1..Len(deps(plugin_classes[i])) :
                \E j \in 1..(i - 1) :
                    issubclass(plugin_classes[j], deps(plugin_classes[i])[k])

\* on_event has just run on_plugin_config_update for pmLast.plugin_class.
UpdateHandled ==
    pmLast.op = "on_event" /\ pmLast.type = "PluginConfigUpdateEvent"

\* The classes at or after c in the order.
AtOrAfter(c) ==
    {plugin_classes[i] : i \in index(plugin_classes, c)..Len(plugin_classes)}

\* C13: when on_plugin_config_update returns for a loaded plugin X that was
\* disabled, X is unloaded and no plugin at or after X in the order is
\* loaded with a dependency target that has no loaded instance.
C13_DisableCascade ==
    (UpdateHandled /\ ~config[pmLast.plugin_class]
                   /\ pmLast.was_loaded) =>
        /\ instance[pmLast.plugin_class] = 0
        /\ \A c \in AtOrAfter(pmLast.plugin_class) :
              instance[c] # 0 => check_deps(instance, plugin_classes, c)

\* C14: when on_plugin_config_update returns for an enabled plugin X whose
\* dependencies were loaded, X is loaded and no enabled plugin at or after X
\* in the order is unloaded while all its dependency targets have loaded
\* instances.
C14_EnableCascade ==
    (UpdateHandled /\ config[pmLast.plugin_class]
                   /\ pmLast.deps_were_loaded) =>
        /\ instance[pmLast.plugin_class] # 0
        /\ \A c \in AtOrAfter(pmLast.plugin_class) :
              (config[c] /\ check_deps(instance, plugin_classes, c)) => instance[c] # 0

\* C15: after a plugin's enabled flag was toggled and
\* on_plugin_config_update has run for it and loaded or unloaded it, a second
\* run for the same plugin loads, unloads and re-instantiates nothing.
C15_CascadeFixedPoint ==
    (UpdateHandled /\ pmLast.was_loaded # (instance[pmLast.plugin_class] # 0)) =>
        LET again == on_plugin_config_update(Handler(instance), plugin_classes, config,
                                             pmLast.plugin_class)
        IN  /\ again.inst = instance
            /\ again.inits = <<>>

\* C16: when on_event has handled the PluginReloadEvent of a reloaded
\* plugin X, every loaded plugin later in the order that declares a
\* dependency matched by X has had its on_dep_load hook called.
C16_ReloadNotifiesDependents ==
    (pmLast.op = "on_event" /\ pmLast.type = "PluginReloadEvent"
                            /\ instance[pmLast.plugin_class] # 0) =>
        \A c \in AtOrAfter(pmLast.plugin_class) \ {pmLast.plugin_class} :
            (/\ instance[c] # 0
             /\ \E k \in 1..Len(deps(c)) : issubclass(pmLast.plugin_class, deps(c)[k]))
                => c \in pmLast.notified

\* The classes of I in a dependency cycle: each of their targets is matched
\* by a class of I, and yet no ordering can place them.
InCycle(I) ==
    {c \in I \ Resolvable(I, {}) :
        \A k \in 1..Len(deps(c)) : \E d \in I : issubclass(d, deps(c)[k])}

\* C17: when the discovered classes hold a dependency cycle,
\* PluginManager.init ends with a fatal error and loads no plugin.
C17_CycleIsFatal ==
    (pmLast.op = "init" /\ InCycle(Classes(plugin_classes)) # {}) =>
        /\ pmLast.outcome = "fatal"
        /\ pmLast.inits = <<>>

\* The classes of I with a dependency target that no class of I matches.
Unmatched(I) ==
    {c \in I : \E k \in 1..Len(deps(c)) : ~\E d \in I : issubclass(d, deps(c)[k])}

\* C18: a plugin with a dependency target that no discovered class matches
\* is never loaded; PluginManager.init ends without an error, loads every
\* other enabled plugin whose dependency targets have loaded instances, and
\* loads of the other plugins exactly those it loads when the plugin is not
\* in the directory.
C18_MissingDepIsSilent ==
    LET I == Classes(plugin_classes)
        orphans == Unmatched(I)
        others == SelectSeq(pmLast.found, LAMBDA c : c \notin orphans)
        alone == init_loop(Handler([c \in PluginIds |-> 0]),
                           load_all_plugin_classes(others), config, 1)
    IN  /\ \A c \in orphans : instance[c] = 0
        /\ (pmLast.op = "init" /\ orphans # {}) =>
              /\ pmLast.outcome = "ok"
              /\ \A c \in I \ orphans :
                    (config[c] /\ check_deps(instance, plugin_classes, c))
                        => instance[c] # 0
              /\ \A c \in I \ orphans : instance[c] = alone.inst[c]

\* init has run over a list with the enabled move, which has no provider of
\* PetPluginProtocol, before expression, and has loaded expression.
C18_Witness ==
    /\ pmLast.op = "init"
    /\ "move" \in Unmatched(Classes(plugin_classes))
    /\ config["move"]
    /\ index(plugin_classes, "move") < index(plugin_classes, "expression")
    /\ instance["expression"] # 0
    /\ instance["move"] = 0

\* C19: when on_plugin_config_update has handled a change, the last event
\* it triggered is a PluginRefreshEvent computed from the plugins that are
\* loaded once the cascade has finished, and it is the only one.
C19_RefreshAfterCascade ==
    UpdateHandled =>
        /\ pmLast.triggered # <<>>
        /\ pmLast.triggered[Len(pmLast.triggered)].type = "PluginRefreshEvent"
        /\ pmLast.triggered[Len(pmLast.triggered)].loaded = loaded_plugins(instance)
        /\ Len(pmLast.triggered) - Len(ForManager(pmLast.triggered)) = 1

\* on_plugin_config_update has handled a change whose cascade loaded or
\* unloaded more than one plugin.
C19_Witness ==
    /\ UpdateHandled
    /\ pmLast.changed >= 2
    /\ pmLast.triggered # <<>>

\* C20: every entry point that reads or changes the loaded plugins runs on
\* the worker loop thread.
C20_ThreadConfinement ==
    pmLast.op \in {"init", "on_event"} => pmLast.thread = "worker"

\* C28: two plugins that contribute the same key under the same group title
\* are never loaded together, unless the entry point that has just run
\* ended with an error.
C28_InfoKeyCollisionFails ==
    \A c, d \in PluginIds :
        (/\ c # d
         /\ instance[c] # 0 /\ instance[d] # 0
         /\ plugin_infos(c) \cap plugin_infos(d) # {})
            => pmLast.outcome # "ok"

\* C30: an update_config with a config equal to the cached one writes no
\* file, leaves the cached and persisted config as it is and triggers no
\* event; with a config that differs it writes the file, caches the config
\* and triggers exactly one PluginConfigUpdateEvent for the class.
C30_PersistOnlyOnChange ==
    [][pmLast'.op = "update_config" =>
          LET c == pmLast'.plugin_class
              new == pmLast'.new
          IN  IF new.enabled = config[c] /\ new.rest = "same"
              THEN /\ ~pmLast'.wrote
                   /\ config' = config
                   /\ pmQueue' = pmQueue
              ELSE /\ pmLast'.wrote
                   /\ config' = [config EXCEPT ![c] = new.enabled]
                   /\ pmQueue' = Append(pmQueue, Ev("PluginConfigUpdateEvent", c, {}))]_vars

\* The config window handed back the config of a loaded plugin unchanged,
\* and nothing was written.
C30_Witness ==
    /\ pmLast.op = "update_config"
    /\ pmLast.new = [enabled |-> TRUE, rest |-> "same"]
    /\ config[pmLast.plugin_class]
    /\ instance[pmLast.plugin_class] # 0
    /\ ~pmLast.wrote
    /\ pmQueue = <<>>

\* C37: what a loaded plugin was last handed through on_dep_load is an
\* instance that is still loaded: no loaded plugin holds, for any of its
\* dependencies, an instance whose clear() has run.
C37_NoDanglingDep ==
    \A c \in PluginIds :
        instance[c] # 0 =>
            \A k \in 1..Len(dep_held[c]) : ~dep_held[c][k].cleared

\* The hooks of class c among the hooks a handler ran.
HooksOf(hooks, c) == SelectSeq(hooks, LAMBDA h : h.plugin_class = c)

\* C38: init and clear are paired.  Per class, the instances whose init has
\* run and whose clear has not are exactly the loaded instance (so every
\* instance that was unloaded got one clear, and none got two); within a
\* handler the hooks of a class alternate, a reload runs the old instance's
\* clear and then the new instance's init, and handling the disabling of a
\* class that has no instance runs no clear of it.
C38_TeardownPairing ==
    /\ \A c \in PluginIds : inited[c] = IF instance[c] # 0 THEN 1 ELSE 0
    /\ \A c \in PluginIds :
          LET hs == HooksOf(pmLast.hooks, c) IN
          \A i \in 1..(Len(hs) - 1) : hs[i].hook # hs[i + 1].hook
    /\ \A n \in 1..Len(pmLast.inits) :
          LET c == pmLast.inits[n].plugin_class
              hs == HooksOf(pmLast.hooks, c)
          IN  pmLast.inits[n].reload =>
                 \E i \in 1..(Len(hs) - 1) : hs[i].hook = "clear" /\ hs[i + 1].hook = "init"
    /\ (pmLast.op = "on_event" /\ pmLast.type = "PluginConfigUpdateEvent"
            /\ ~pmLast.was_loaded /\ pmLast.inits = <<>>) =>
          HooksOf(pmLast.hooks, pmLast.plugin_class) = <<>>

\* A handler has reloaded a plugin: the clear of the old instance, then the
\* init of the new one, which is the loaded instance now.
C38_Witness ==
    \E n \in 1..Len(pmLast.inits) :
        /\ pmLast.inits[n].reload
        /\ HooksOf(pmLast.hooks, pmLast.inits[n].plugin_class)
              = <<Hook("clear", pmLast.inits[n].plugin_class),
                  Hook("init", pmLast.inits[n].plugin_class)>>
        /\ instance[pmLast.inits[n].plugin_class] # 0

(* ------------------------ merge_str_dict properties -------------------- *)
\* The values the dicts hold under key, in the order of the dicts.
RECURSIVE ValuesFor(_, _)
ValuesFor(dicts, key) ==
    IF dicts = <<>> THEN <<>>
    ELSE LET d == Head(dicts)
         IN  (IF ItemIndex(d, key) # 0 THEN <<d[ItemIndex(d, key)][2]>> ELSE <<>>)
                 \o ValuesFor(Tail(dicts), key)

\* sep.join(values).
RECURSIVE Join(_, _)
Join(values, sep) ==
    IF values = <<>> THEN <<>>
    ELSE IF Len(values) = 1 THEN values[1]
    ELSE values[1] \o sep \o Join(Tail(values), sep)

\* C29: the result of merge_str_dict has exactly the keys of the dicts, each
\* once, and under each key the values the dicts hold for it, in the order
\* of the dicts, joined by the separator.
C29_MergeIsJoin ==
    merged # NoCall =>
        /\ {merged[i][1] : i \in 1..Len(merged)}
              = UNION {{fragments.dicts[d][i][1] : i \in 1..Len(fragments.dicts[d])}
                          : d \in 1..Len(fragments.dicts)}
        /\ \A i, j \in 1..Len(merged) : i # j => merged[i][1] # merged[j][1]
        /\ \A i \in 1..Len(merged) :
              merged[i][2] = Join(ValuesFor(fragments.dicts, merged[i][1]), fragments.sep)

\* A call has merged two different fragments under one key.
C29_Witness ==
    /\ merged # NoCall
    /\ \E k \in SlotKeys :
          LET vs == ValuesFor(fragments.dicts, k)
          IN  Len(vs) = 2 /\ vs[1] # vs[2] /\ vs[1] # <<>> /\ vs[2] # <<>>

(* -------------------------- config.yaml properties --------------------- *)
\* C31: a get_config call never fails: when config.yaml is missing or does
\* not parse into the config type, the call writes the type's defaults to
\* config.yaml, caches them and returns them.
C31_ConfigNeverFatal ==
    cfgLast.op = "get_config" =>
        /\ cfgLast.outcome = "ok"
        /\ cfgLast.file \in {"absent", "bad_yaml", "bad_fields"} =>
              /\ cfgLast.wrote
              /\ config_file[cfgLast.plugin_class] = DefaultConfig
              /\ cached_config[cfgLast.plugin_class] = DefaultConfig

(* -------------------------- drag plugin properties --------------------- *)
\* C33: what one thread hands to submit_task takes effect on the loop in the
\* order of submission: when the body of a submitted trigger_event has run,
\* the body of every add_task submitted before it has run too, so the task
\* of that add_task was registered when the event was delivered.
C33_SubmissionOrder ==
    \A i, j \in 1..Len(calls) :
        (/\ i < j
         /\ calls[i].fn = "add_task"
         /\ calls[j].fn = "trigger_event"
         /\ calls[j].state = "done") => calls[i].state = "done"

\* add_task(DragTask t) was submitted and, after it, a DragEndEvent.
DragEnded(t) ==
    \E i, j \in 1..Len(calls) :
        /\ i < j
        /\ calls[i].fn = "add_task" /\ calls[i].task = t
        /\ calls[j].ev = "DragEndEvent"

\* C36: once the drag plugin has submitted add_task(DragTask) and later a
\* DragEndEvent, the DragTask eventually has ended and TaskManager.tasks
\* no longer holds it, however the submissions interleave with the loop.
C36_DragTaskEnds ==
    \A t \in TaskIds :
        DragEnded(t) ~> (atask[t] = "returned" /\ tasks_get(tasks, "DragTask") # t)

(* ----------------------------- Agent properties ------------------------ *)
\* C39: an Agent never has two run tasks alive: whenever a run task exists
\* whose cancellation has not been requested, every other run task ever
\* created for the agent has been cancelled.
C39_OneRunTask ==
    Cardinality({r \in RunIds : run_task[r] = "alive"}) <= 1

(* ---------------------- StreamMarkerParser properties ------------------ *)
\* The MarkerEvents of the markers among the pieces of a reply, in order.
RECURSIVE MarkersOf(_)
MarkersOf(ps) ==
    IF ps = <<>> THEN <<>>
    ELSE (CASE Head(ps) = "marker" -> <<MarkerEvent(<<"n">>, <<"d">>)>>
            [] Head(ps) = "marker_colon" -> <<MarkerEvent(<<"n">>, <<"d", ":">>)>>
            [] OTHER -> <<>>) \o MarkersOf(Tail(ps))

\* The characters of a reply outside its markers, in order.
RECURSIVE TextOf(_)
TextOf(ps) ==
    IF ps = <<>> THEN <<>>
    ELSE (IF Head(ps) \in {"marker", "marker_colon"} THEN <<>> ELSE <<Head(ps)>>)
         \o TextOf(Tail(ps))

\* The start of a marker start the parser is holding back at the end of a
\* chunk, to be decided by the next character.
HeldStart ==
    IF parser.state = "in_start" THEN SubSeq(start_marker, 1, parser.start_match_index)
    ELSE <<>>

\* C40: once the whole reply has been handed to process, in whatever
\* chunks, one MarkerEvent(name, data) has been triggered for each marker of
\* the reply, in order, and what the calls returned is the reply without
\* its markers: every other character, unchanged and in order (an
\* unfinished marker start at the very end counted as still to come).
C40_MarkersExtracted ==
    fed = Len(Stream(pieces)) =>
        /\ prLast.outcome = "ok"
        /\ marker_events = MarkersOf(pieces)
        /\ returned \o HeldStart = TextOf(pieces)

====
